---- MODULE Spec2Model ----
(***************************************************************************)
(* State-machine model of notebooks/WFC3/uvis_g280_transit/                *)
(* g280_transit_tools.py: temporal and spatial cosmic-ray removal,         *)
(* subarray embedding, trace fitting, spectrum extraction and the light    *)
(* curve; and of stack_cutouts (psf_utilities.py), copy_files_check        *)
(* (copy_files.py) and make_file (make_dependabot_file.py).                *)
(*                                                                         *)
(* Arrays are records [shape, dtype, data, exp2].  Pixel values are exact  *)
(* rationals stored as integers scaled by Scale (a power of two large      *)
(* enough for every halving np.median can do in a run) and by 2 ^ exp2,    *)
(* so float arithmetic is modelled as exact real arithmetic, except that   *)
(* a squared deviation too small for float64 is 0; a comparison            *)
(* |d| > n_sigma * sqrt(v) is evaluated on the squares.                    *)
(***************************************************************************)
EXTENDS Integers, Sequences, FiniteSets, TLC

\* ------------------------------------------------------------ bounds
MaxExp == 3
MaxH == 2
MaxW == 3
MaxCells == 6
MaxHits == 2
MaxIter == 2
MaxCalls == 2

\* values are stored times Scale: np.median halves at most once per iteration
Scale == 2 ^ MaxIter

\* n_sigma as a fraction <<numerator, denominator>>
SigmaChoices == {<<1, 1>>, <<3, 2>>, <<2, 1>>}
\* filter kernel sizes (the default is 3)
SizeChoices == {1, 3}
\* pixel values that differ from the background 0
HitLevels == {1, 10}
DTypes == {"int64", "float64"}

VARIABLES
    fn,           \* which function the caller runs: "time" or "space"
    pc,           \* "idle" (before the call), "loop", "done" (returned)
    calls,        \* number of calls that have returned
    heap,         \* buffer id -> array: the numpy buffers that are alive
    time_series,  \* buffer id of the argument time_series
    cr,           \* buffer id bound to time_series_cr_time / _cr_space
    mask,         \* mask_outliers_time / mask_outliers_space (an array)
    i,            \* loop variable
    n_sigma, n_iter, size,
    input0,       \* the caller's array as it was when the call started
    prev0,        \* input0 of the previous call (<<>> during the first)
    lastflag      \* mask_outliers of the latest loop iteration (data only)

VARIABLES
    fs,           \* the file system: path -> content of the FITS file there
    path,         \* argument path
    sub_dir,      \* argument sub_dir
    path_f,       \* the local path_f (<<>> until it is computed)
    epc,          \* "start", "copied", "done" (returned) or "error" (raised)
    src0          \* the content of the file at path when the call started

crVars == <<fn, pc, calls, heap, time_series, cr, mask, i, n_sigma, n_iter,
            size, input0, prev0, lastflag>>
VARIABLES
    trace_call,   \* the locals of a call of fit_spectral_trace, with its pc
    extract_call, \* the locals of a call of extract_spectrum, with its pc
    light_call    \* the locals of a call of make_light_curve, with its pc

VARIABLES
    stack_call,   \* the locals of a call of stack_cutouts, with its pc
    copy_call,    \* the locals of a call of copy_files_check, with its pc
    make_call,    \* the locals of a call of make_file, with its pc
    disk,         \* regular files outside the FITS store: path -> content
    cwd           \* the working directory of the process

embedVars == <<fs, path, sub_dir, path_f, epc, src0>>
pipeVars == <<trace_call, extract_call, light_call>>
toolVars == <<stack_call, copy_call, make_call, disk, cwd>>
vars == <<crVars, embedVars, pipeVars, toolVars>>

\* ------------------------------------------------------------ helpers
Abs(v) == IF v < 0 THEN -v ELSE v
Max2(a, b) == IF a >= b THEN a ELSE b

RECURSIVE SumTo(_, _)
\* sum of f[1] .. f[n]
SumTo(f, n) == IF n = 0 THEN 0 ELSE f[n] + SumTo(f, n - 1)

\* k-th smallest (k from 0) of the values of f, as a sort would order them
Kth(f, k) ==
    CHOOSE v \in {f[j] : j \in DOMAIN f} :
        /\ Cardinality({j \in DOMAIN f : f[j] < v}) <= k
        /\ Cardinality({j \in DOMAIN f : f[j] <= v}) > k

\* division truncating toward zero (a C cast of a double to an integer)
TruncDiv(a, b) == IF a >= 0 THEN a \div b ELSE -((-a) \div b)

Positions(shape) == (1..shape[1]) \X (1..shape[2]) \X (1..shape[3])

\* np.zeros_like(a).astype(bool)
ZerosLikeBool(a) ==
    [shape |-> a.shape, dtype |-> "bool",
     data |-> [p \in Positions(a.shape) |-> FALSE]]

\* ndarray.copy(): a new array with the same shape, dtype and values
CopyArray(a) == [a EXCEPT !.data = a.data]

\* smallest buffer id not in use: where a newly allocated array lives
NewId(h) == CHOOSE k \in 1..(Cardinality(DOMAIN h) + 1) : k \notin DOMAIN h

\* the plain assignment time_series_cr = time_series: no new buffer
CopyTargetAlias(h, src) == src

\* time_series.copy() allocates a new buffer for the copy
CopyTarget(h, src) == NewId(h)

\* the heap after binding a fresh buffer `id` to array `a`, keeping only the
\* buffers still referenced (reference counting frees the others)
Bind(h, id, a, live) ==
    [k \in (live \cup {id}) |-> IF k = id THEN a ELSE h[k]]

\* numpy result type of mixing two dtypes (np.where, arithmetic)
ResultType(a, b) == IF a = "float64" \/ b = "float64" THEN "float64" ELSE a
\* np.median returns float64 for integer input
MedianDType(d) == IF d = "int64" THEN "float64" ELSE d
\* broadcasting an (n, y, x) shape with a (y, x) shape
Broadcast(s3, s2) == <<s3[1], Max2(s3[2], s2[1]), Max2(s3[3], s2[2])>>

\* ------------------------------------------- remove_cosmic_rays_time
\* np.median(a, axis=0) at pixel (y, x)
MedianAt(a, y, x) ==
    LET n == a.shape[1]
        col == [e \in 1..n |-> a.data[<<e, y, x>>]]
    IN IF n % 2 = 1 THEN Kth(col, (n - 1) \div 2)
       ELSE (Kth(col, n \div 2 - 1) + Kth(col, n \div 2)) \div 2

\* float64 has no positive number below 2 ^ MinSubnormalExp
MinSubnormalExp == -1074
\* the binary exponent of the unit of a stack of very faint pixels
TinyExp == -600

\* d ** 2 in float64, for a difference d that stands for d * 2^e / Scale:
\* a square of at most 2 ^ (MinSubnormalExp - 1) is rounded to 0.0 (the
\* squares of the model are below 2 ^ 30)
SquareOf(d, e) ==
    LET room == (MinSubnormalExp - 1) - 2 * e + 2 * MaxIter
    IN IF room < 0 THEN d * d
       ELSE IF room >= 30 THEN 0
       ELSE IF d * d <= 2 ^ room THEN 0 ELSE d * d

\* n * mean((a - median) ** 2, axis=0) at pixel (y, x): the squared RMSE
\* times the number of exposures
SumSqDevAt(a, y, x) ==
    LET n == a.shape[1]
        m == MedianAt(a, y, x)
    IN SumTo([e \in 1..n |-> SquareOf(a.data[<<e, y, x>>] - m, a.exp2)], n)

\* abs_deviation >= n_sigma * rmse
ExceedsOrEquals(dev, sigma, sumsq, n) ==
    sigma[2] * sigma[2] * n * dev * dev >= sigma[1] * sigma[1] * sumsq

\* abs_deviation > n_sigma * rmse, on the squares (both sides are >= 0)
Exceeds(dev, sigma, sumsq, n) ==
    sigma[2] * sigma[2] * n * dev * dev > sigma[1] * sigma[1] * sumsq

\* mask_outliers with the mean absolute deviation in place of the RMSE
TimeOutliersMeanAbs(a, sigma) ==
    [p \in Positions(a.shape) |->
        LET n == a.shape[1]
            m == MedianAt(a, p[2], p[3])
        IN sigma[2] * n * Abs(a.data[p] - m)
             > sigma[1] * SumTo([e \in 1..n |-> Abs(a.data[<<e, p[2], p[3]>>] - m)], n)]

\* mask_outliers of one iteration
TimeOutliers(a, sigma) ==
    [p \in Positions(a.shape) |->
        Exceeds(Abs(a.data[p] - MedianAt(a, p[2], p[3])), sigma,
                SumSqDevAt(a, p[2], p[3]), a.shape[1])]

\* np.where(mask_outliers, median, time_series_cr_time)
TimeWhere(a, flags) ==
    [shape |-> Broadcast(a.shape, <<a.shape[2], a.shape[3]>>),
     dtype |-> ResultType(MedianDType(a.dtype), a.dtype),
     data |-> [p \in Positions(a.shape) |->
                 IF flags[p] THEN MedianAt(a, p[2], p[3]) ELSE a.data[p]],
     exp2 |-> a.exp2]

\* mask_outliers_time = mask_outliers: the latest flags only
MaskOverwrite(m, flags) ==
    [shape |-> m.shape, dtype |-> "bool",
     data |-> [p \in Positions(m.shape) |-> flags[p]]]

\* mask_outliers_time | mask_outliers
MaskOr(m, flags) ==
    [shape |-> m.shape, dtype |-> "bool",
     data |-> [p \in Positions(m.shape) |-> m.data[p] \/ flags[p]]]

NoMask == [shape |-> <<0, 0, 0>>, dtype |-> "bool", data |-> <<>>]

\* range(n_iter + 1): one iteration too many
TimeLoopRunsOnceMore == i <= n_iter

\* for i in range(n_iter): the loop body runs while i < n_iter
TimeLoopRuns == i < n_iter

TimeCall ==
    /\ pc = "idle" /\ fn = "time"
    /\ LET id == CopyTarget(heap, time_series)
       IN /\ heap' = Bind(heap, id, CopyArray(heap[time_series]), {time_series})
          /\ cr' = id
          /\ mask' = ZerosLikeBool(heap[time_series])
    /\ i' = 0
    /\ pc' = "loop"
    /\ lastflag' = <<>>
    /\ UNCHANGED <<fn, calls, time_series, n_sigma, n_iter, size, input0, prev0>>
    /\ UNCHANGED <<embedVars, pipeVars, toolVars>>

\* the statistics of every iteration taken from the argument
StatisticsInputOriginal == heap[time_series]

\* lines 60-64: the iteration reads time_series_cr_time, the stack that
\* the iterations before it have corrected
StatisticsInput == heap[cr]

\* a threshold that is tightened from iteration to iteration:
\* n_sigma / (i + 1)
IterationSigmaTightening == <<n_sigma[1], n_sigma[2] * (i + 1)>>

\* line 65: every iteration compares with the same n_sigma
IterationSigma == n_sigma

TimeIter ==
    /\ pc = "loop" /\ fn = "time" /\ TimeLoopRuns
    /\ LET a == StatisticsInput
           flags == TimeOutliers(a, IterationSigma)
           id == NewId(heap)
       IN /\ mask' = MaskOr(mask, flags)
          /\ heap' = Bind(heap, id, TimeWhere(a, flags), {time_series})
          /\ cr' = id
          /\ lastflag' = flags
    /\ i' = i + 1
    /\ UNCHANGED <<fn, pc, calls, time_series, n_sigma, n_iter, size, input0,
                   prev0>>
    /\ UNCHANGED <<embedVars, pipeVars, toolVars>>

TimeReturn ==
    /\ pc = "loop" /\ fn = "time" /\ ~TimeLoopRuns
    /\ pc' = "done"
    /\ calls' = calls + 1
    /\ UNCHANGED <<fn, heap, time_series, cr, mask, i, n_sigma, n_iter, size,
                   input0, prev0, lastflag>>
    /\ UNCHANGED <<embedVars, pipeVars, toolVars>>

\* ------------------------------------------ remove_cosmic_rays_space
\* scipy.ndimage boundary mode "reflect" (d c b a | a b c d | d c b a):
\* the index in 1..n that position j, possibly outside 1..n, reads
Reflect(j, n) ==
    LET r == (j - 1) % (2 * n)
    IN IF r >= n THEN 2 * n - r ELSE r + 1

\* offset of the k-th cell (k in 1..size) of a kernel centred with origin 0
KernelOffset(k, sz) == k - 1 - (sz \div 2)

\* the size x size neighbourhood of pixel (y, x) of image e of array a,
\* row by row
Neighbourhood(a, e, y, x, sz) ==
    [c \in 1..(sz * sz) |->
        a.data[<<e, Reflect(y + KernelOffset(((c - 1) \div sz) + 1, sz), a.shape[2]),
                    Reflect(x + KernelOffset(((c - 1) % sz) + 1, sz), a.shape[3])>>]]

\* ndi.median_filter(image, size=size) at (y, x): the element of rank
\* (size * size) // 2 of the neighbourhood
MedianFilterAt(a, e, y, x, sz) == Kth(Neighbourhood(a, e, y, x, sz), (sz * sz) \div 2)

\* v (pw = 1) or v ** 2 (pw = 2)
Power(v, pw) == IF pw = 2 THEN v * v ELSE v

\* sum over the neighbourhood of value ** pw
WindowSum(a, e, y, x, sz, pw) ==
    LET w == Neighbourhood(a, e, y, x, sz)
    IN SumTo([c \in 1..(sz * sz) |-> Power(w[c], pw)], sz * sz)

\* ndi.uniform_filter(input ** pw, size) on an integer image: one pass per
\* axis, each pass storing sum / size in the integer output (truncated),
\* axis 0 first
UniformFilterInt(a, e, y, x, sz, pw) ==
    LET pass0(yy, xx) ==
            TruncDiv(SumTo([r \in 1..sz |->
                Power(a.data[<<e, Reflect(yy + KernelOffset(r, sz), a.shape[2]), xx>>]
                        \div Scale, pw)], sz), sz)
    IN TruncDiv(SumTo([c \in 1..sz |->
            pass0(y, Reflect(x + KernelOffset(c, sz), a.shape[3]))], sz), sz)

\* input_sq_mean - input_mean ** 2 of ndi_std_filter at (y, x) of image e.
\* float64: exact, times (size*size)^2 and Scale^2.  int64: the means are the
\* truncated integers of UniformFilterInt, so the difference can be negative.
StdRadicand(a, e, y, x, sz) ==
    IF a.dtype = "int64"
    THEN LET m == UniformFilterInt(a, e, y, x, sz, 1)
         IN UniformFilterInt(a, e, y, x, sz, 2) - m * m
    ELSE LET s1 == WindowSum(a, e, y, x, sz, 1)
         IN sz * sz * WindowSum(a, e, y, x, sz, 2) - s1 * s1

\* abs_deviation in the units of StdRadicand
AbsDeviation(a, e, y, x, sz) ==
    LET dev == Abs(a.data[<<e, y, x>>] - MedianFilterAt(a, e, y, x, sz))
    IN IF a.dtype = "int64" THEN dev \div Scale ELSE dev * sz * sz

\* abs_deviation >= n_sigma * std_filter
SpaceOutlierAtOrEquals(a, e, y, x, sigma, sz) ==
    LET d == AbsDeviation(a, e, y, x, sz)
        r == StdRadicand(a, e, y, x, sz)
    IN r >= 0 /\ sigma[2] * sigma[2] * d * d >= sigma[1] * sigma[1] * r

\* abs_deviation > n_sigma * std_filter at (y, x) of image e, where
\* std_filter = np.sqrt(radicand), compared on the squares; the square root
\* of a negative radicand is NaN, which compares False
SpaceOutlierAt(a, e, y, x, sigma, sz) ==
    LET d == AbsDeviation(a, e, y, x, sz)
        r == StdRadicand(a, e, y, x, sz)
    IN r >= 0 /\ sigma[2] * sigma[2] * d * d > sigma[1] * sigma[1] * r

\* time_series_cr_space[i - 1]: the neighbouring exposure
SpaceImagePrevious(e) == IF e > 1 THEN e - 1 ELSE e

\* the image the loop body reads: time_series_cr_space[i]
SpaceImage(e) == e

\* mask_outliers for image e, as a function of the positions of that image
SpaceOutliers(a, e, sigma, sz) ==
    [p \in {q \in Positions(a.shape) : q[1] = e} |->
        SpaceOutlierAt(a, SpaceImage(e), p[2], p[3], sigma, sz)]

\* time_series_cr_space[i] = median_filter: the mask is not consulted
SpaceStoreUnmasked(a, e, flags, sz) ==
    [a EXCEPT !.data =
        [p \in Positions(a.shape) |->
            IF p[1] = e
            THEN MedianFilterAt(a, SpaceImage(e), p[2], p[3], sz)
            ELSE a.data[p]]]

\* time_series_cr_space[i] = np.where(mask_outliers, median_filter, ...[i]):
\* written into the buffer itself, which keeps its shape and dtype
SpaceStore(a, e, flags, sz) ==
    [a EXCEPT !.data =
        [p \in Positions(a.shape) |->
            IF p[1] = e /\ flags[p]
            THEN MedianFilterAt(a, SpaceImage(e), p[2], p[3], sz)
            ELSE a.data[p]]]

\* mask_outliers_space[i] = mask_outliers
MaskStore(m, e, flags) ==
    [m EXCEPT !.data =
        [p \in Positions(m.shape) |-> IF p[1] = e THEN flags[p] ELSE m.data[p]]]

SpaceCall ==
    /\ pc = "idle" /\ fn = "space"
    /\ LET id == CopyTarget(heap, time_series)
       IN /\ heap' = Bind(heap, id, CopyArray(heap[time_series]), {time_series})
          /\ cr' = id
          /\ mask' = ZerosLikeBool(heap[time_series])
    /\ i' = 0
    /\ pc' = "loop"
    /\ lastflag' = <<>>
    /\ UNCHANGED <<fn, calls, time_series, n_sigma, n_iter, size, input0, prev0>>
    /\ UNCHANGED <<embedVars, pipeVars, toolVars>>

SpaceIter ==
    /\ pc = "loop" /\ fn = "space" /\ i < heap[time_series].shape[1]
    /\ LET a == heap[cr]
           flags == SpaceOutliers(a, i + 1, n_sigma, size)
       IN /\ mask' = MaskStore(mask, i + 1, flags)
          /\ heap' = [heap EXCEPT ![cr] = SpaceStore(a, i + 1, flags, size)]
          /\ lastflag' = flags
    /\ i' = i + 1
    /\ UNCHANGED <<fn, pc, calls, time_series, cr, n_sigma, n_iter, size, input0,
                   prev0>>
    /\ UNCHANGED <<embedVars, pipeVars, toolVars>>

SpaceReturn ==
    /\ pc = "loop" /\ fn = "space" /\ i >= heap[time_series].shape[1]
    /\ pc' = "done"
    /\ calls' = calls + 1
    /\ UNCHANGED <<fn, heap, time_series, cr, mask, i, n_sigma, n_iter, size,
                   input0, prev0, lastflag>>
    /\ UNCHANGED <<embedVars, pipeVars, toolVars>>

\* the caller applies remove_cosmic_rays_space, with the same n_sigma and
\* size, to the cleaned stack the previous call returned
SpaceAgain ==
    /\ pc = "done" /\ fn = "space" /\ calls < MaxCalls
    /\ time_series' = cr
    /\ heap' = [k \in {cr} |-> heap[k]]
    /\ input0' = heap[cr]
    /\ prev0' = input0
    /\ pc' = "idle"
    /\ UNCHANGED <<fn, calls, cr, mask, i, n_sigma, n_iter, size, lastflag>>
    /\ UNCHANGED <<embedVars, pipeVars, toolVars>>

\* ------------------------------------------------------------ inputs
RECURSIVE UpTo(_, _)
\* the subsets of S with at most k elements
UpTo(S, k) ==
    IF k = 0 THEN {{}}
    ELSE UpTo(S, k - 1) \cup {T \cup {x} : T \in UpTo(S, k - 1), x \in S}

Shapes ==
    {s \in (1..MaxExp) \X (1..MaxH) \X (1..MaxW) : s[1] * s[2] * s[3] <= MaxCells}

\* stacks of background 0 with at most MaxHits deviating pixels
Stacks ==
    UNION {
        UNION {
            {[shape |-> s, dtype |-> d,
              data |-> [p \in Positions(s) |->
                          IF p \in hits THEN lv[p] * Scale ELSE 0],
              exp2 |-> 0]
                : lv \in [hits -> HitLevels], d \in DTypes}
            : hits \in UpTo(Positions(s), MaxHits)}
        : s \in Shapes}

\* the float64 stacks with every pixel value times 2 ^ TinyExp
TinyStacks == {[a EXCEPT !.exp2 = TinyExp] : a \in {b \in Stacks : b.dtype = "float64"}}

\* the state before a call of function f on a stack of S
CRInitOn(f, S) ==
    /\ fn = f
    /\ pc = "idle"
    /\ calls = 0
    /\ \E a \in S : heap = (1 :> a) /\ input0 = a
    /\ time_series = 1
    /\ cr = 0
    /\ mask = NoMask
    /\ i = 0
    /\ n_sigma \in SigmaChoices
    /\ n_iter \in (IF fn = "time" THEN 0..MaxIter ELSE {0})
    /\ size \in (IF fn = "space" THEN SizeChoices ELSE {3})
    /\ prev0 = <<>>
    /\ lastflag = <<>>

\* the state before a call of function f
CRInitFor(f) == CRInitOn(f, Stacks)

CRInit == \E f \in {"time", "space"} : CRInitFor(f)

TimeNext == TimeCall \/ TimeIter \/ TimeReturn

SpaceNext == SpaceCall \/ SpaceIter \/ SpaceReturn \/ SpaceAgain

CRNext ==
    \/ TimeCall \/ TimeIter \/ TimeReturn
    \/ SpaceCall \/ SpaceIter \/ SpaceReturn \/ SpaceAgain

\* ------------------------------------------- the 5-exposure example
\* a (5, 10, 10) stack; exposure index 2, pixel (4, 4) counted from 0
ExampleShape == <<5, 10, 10>>
ExampleHit == <<3, 5, 5>>
ExampleHitValue == 1000 * Scale

\* the noise value, one of 9, 10, 11, that noise vector v gives exposure e
NoiseValue(v, e) == (9 + ((v \div (3 ^ (e - 1))) % 3)) * Scale

\* the 100 pixels carry the noise vectors 100 * k .. 100 * k + 99 (mod 3^5),
\* so that k = 0, 1, 2 cover every vector of {9, 10, 11}^5, and the four
\* other exposures of the hit pixel carry the vector j of {9, 10, 11}^4
ExampleStack(k, j) ==
    [shape |-> ExampleShape, dtype |-> "float64",
     data |-> [p \in Positions(ExampleShape) |->
        IF p = ExampleHit THEN ExampleHitValue
        ELSE IF p[2] = ExampleHit[2] /\ p[3] = ExampleHit[3]
             THEN NoiseValue(j, IF p[1] < ExampleHit[1] THEN p[1] ELSE p[1] - 1)
             ELSE NoiseValue((10 * (p[2] - 1) + (p[3] - 1) + 100 * k) % (3 ^ 5), p[1])],
     exp2 |-> 0]

ExampleInit ==
    /\ fn = "time"
    /\ pc = "idle"
    /\ calls = 0
    /\ \E j \in 0..(3 ^ 4 - 1) :
          heap = (1 :> ExampleStack(j % 3, j)) /\ input0 = ExampleStack(j % 3, j)
    /\ time_series = 1
    /\ cr = 0
    /\ mask = NoMask
    /\ i = 0
    /\ n_sigma = <<4, 1>>
    /\ n_iter = 2
    /\ size = 3
    /\ prev0 = <<>>
    /\ lastflag = <<>>

\* ------------------------------------------------------ embedsub_uvis
\* A 2-D plane is [shape, dtype, fill, cells]: element (r, c), counted from
\* 0, is cells[<<r, c>>] where that is defined and fill elsewhere.  Header
\* values that are floats in the file (LTV, CRPIX) are stored times two.
y_axis == 2051
x_axis == 4096

At(pl, r, c) == IF <<r, c>> \in DOMAIN pl.cells THEN pl.cells[<<r, c>>] ELSE pl.fill

\* np.zeros((y_axis, x_axis), dtype) + fill
FullFrame(dtype, fill) ==
    [shape |-> <<y_axis, x_axis>>, dtype |-> dtype, fill |-> fill, cells |-> <<>>]

\* storing a value in an array of the given dtype
Cast(v, dtype) ==
    IF dtype = "int16" THEN ((v + 2 ^ 15) % (2 ^ 16)) - 2 ^ 15 ELSE v

\* int(x) of a float x stored times two: truncation toward zero
IntOf(x2) == TruncDiv(x2, 2)

\* the indices that the Python slice lo:hi selects on an axis of length n
SliceIndices(lo, hi, n) ==
    LET norm(k) == IF k < 0 THEN Max2(k + n, 0) ELSE IF k > n THEN n ELSE k
    IN norm(lo)..(norm(hi) - 1)

\* y_min, y_max, x_min, x_max of lines 201-204
PlacementWindow(hdr) ==
    [y_min |-> IntOf(-hdr["LTV2"]),
     y_max |-> IntOf(-hdr["LTV2"]) + hdr["NAXIS2"],
     x_min |-> IntOf(-hdr["LTV1"]),
     x_max |-> IntOf(-hdr["LTV1"]) + hdr["NAXIS1"]]

Min2(a, b) == IF a <= b THEN a ELSE b
SetMin(S) == CHOOSE k \in S : \A j \in S : k <= j

\* whether numpy can broadcast src to the region target[rows, cols]
CanAssign(rows, cols, src) ==
    /\ src.shape[1] \in {Cardinality(rows), 1}
    /\ src.shape[2] \in {Cardinality(cols), 1}

\* the subarray written upside down: src[::-1]
AssignedFlipped(target, rows, cols, src) ==
    [target EXCEPT !.cells =
        [q \in (DOMAIN target.cells) \cup (rows \X cols) |->
            IF q \in rows \X cols
            THEN Cast(At(src, src.shape[1] - 1 - (q[1] - SetMin(rows)),
                         q[2] - SetMin(cols)), target.dtype)
            ELSE target.cells[q]]]

\* target[rows, cols] = src, for a src that CanAssign accepts
Assigned(target, rows, cols, src) ==
    [target EXCEPT !.cells =
        [q \in (DOMAIN target.cells) \cup (rows \X cols) |->
            IF q \in rows \X cols
            THEN Cast(At(src, IF src.shape[1] = 1 THEN 0 ELSE q[1] - SetMin(rows),
                         IF src.shape[2] = 1 THEN 0 ELSE q[2] - SetMin(cols)),
                      target.dtype)
            ELSE target.cells[q]]]

\* hdr with key set to val
SetKey(hdr, key, val) ==
    [k \in (DOMAIN hdr) \cup {key} |-> IF k = key THEN val ELSE hdr[k]]

\* lines 216-222 for one extension: CRPIX and LTV are updated where present,
\* with the CRPIX of the SCI extension
ShiftedHeader(hdr, scihdr, w) ==
    LET h1 == IF "CRPIX1" \in DOMAIN hdr
              THEN SetKey(SetKey(hdr, "CRPIX1", scihdr["CRPIX1"] + 2 * w.x_min),
                          "CRPIX2", scihdr["CRPIX2"] + 2 * w.y_min)
              ELSE hdr
    IN IF "LTV1" \in DOMAIN h1
       THEN SetKey(SetKey(h1, "LTV1", 0), "LTV2", 0)
       ELSE h1

\* the header of an extension as astropy writes it for its new data
WithShape(hdr, pl) == SetKey(SetKey(hdr, "NAXIS1", pl.shape[2]), "NAXIS2", pl.shape[1])

\* file_f and path_f of lines 180-181: 'flt.fits' becomes 'f_flt.fits' in
\* the name, and the directory becomes sub_dir
PathF(p, dir) ==
    [dir |-> dir, stem |-> p.stem,
     tail |-> IF p.tail = "flt.fits" THEN "f_flt.fits" ELSE p.tail]

\* shutil.copyfile(path, path_f)
EmbedCopy ==
    /\ epc = "start"
    /\ PathF(path, sub_dir) # path
    /\ path_f' = PathF(path, sub_dir)
    /\ fs' = [q \in (DOMAIN fs) \cup {PathF(path, sub_dir)} |->
                IF q = PathF(path, sub_dir) THEN fs[path] ELSE fs[q]]
    /\ epc' = "copied"
    /\ UNCHANGED <<path, sub_dir, src0>>
    /\ UNCHANGED <<crVars, pipeVars, toolVars>>

\* shutil.copyfile raises SameFileError when path_f is the file at path
EmbedSameFile ==
    /\ epc = "start"
    /\ PathF(path, sub_dir) = path
    /\ path_f' = PathF(path, sub_dir)
    /\ epc' = "error"
    /\ UNCHANGED <<fs, path, sub_dir, src0>>
    /\ UNCHANGED <<crVars, pipeVars, toolVars>>

\* fits.open(path, mode='update'): the source file itself is opened
UpdateTargetSource(p, pf) == p

\* fits.open(path_f, mode='update'): the file that the with block changes
UpdateTarget(p, pf) == pf

\* the rows and columns that sci[y_min:y_max, x_min:x_max] selects
WindowRows(w) == SliceIndices(w.y_min, w.y_max, y_axis)
WindowCols(w) == SliceIndices(w.x_min, w.x_max, x_axis)

\* lines 185-230: the with block, when every assignment succeeds
EmbedUpdate ==
    /\ epc = "copied"
    /\ LET hdu == fs[UpdateTarget(path, path_f)]
           w == PlacementWindow(hdu.SCI.hdr)
           rows == WindowRows(w)
           cols == WindowCols(w)
       IN /\ CanAssign(rows, cols, hdu.SCI.data)
          /\ CanAssign(rows, cols, hdu.ERR.data)
          /\ CanAssign(rows, cols, hdu.DQ.data)
          /\ LET sci == Assigned(FullFrame("float32", 0), rows, cols, hdu.SCI.data)
                 err == Assigned(FullFrame("float32", 0), rows, cols, hdu.ERR.data)
                 dq == Assigned(FullFrame("int16", 4), rows, cols, hdu.DQ.data)
                 scihdr == SetKey(SetKey(hdu.SCI.hdr, "SIZAXIS1", x_axis),
                                  "SIZAXIS2", y_axis)
             IN fs' = [fs EXCEPT ![UpdateTarget(path, path_f)] =
                    [SUBARRAY |-> FALSE,
                     SCI |-> [hdr |-> WithShape(ShiftedHeader(scihdr, hdu.SCI.hdr, w), sci),
                              data |-> sci],
                     ERR |-> [hdr |-> WithShape(ShiftedHeader(hdu.ERR.hdr, hdu.SCI.hdr, w), err),
                              data |-> err],
                     DQ |-> [hdr |-> WithShape(ShiftedHeader(hdu.DQ.hdr, hdu.SCI.hdr, w), dq),
                             data |-> dq]]]
    /\ epc' = "done"
    /\ UNCHANGED <<path, sub_dir, path_f, src0>>
    /\ UNCHANGED <<crVars, pipeVars, toolVars>>

\* lines 207-209 raise ValueError when the subarray cannot be broadcast to
\* the selected region; nothing of the opened file has been changed yet
EmbedShapeError ==
    /\ epc = "copied"
    /\ LET hdu == fs[UpdateTarget(path, path_f)]
           w == PlacementWindow(hdu.SCI.hdr)
       IN ~ /\ CanAssign(WindowRows(w), WindowCols(w), hdu.SCI.data)
            /\ CanAssign(WindowRows(w), WindowCols(w), hdu.ERR.data)
            /\ CanAssign(WindowRows(w), WindowCols(w), hdu.DQ.data)
    /\ epc' = "error"
    /\ UNCHANGED <<fs, path, sub_dir, path_f, src0>>
    /\ UNCHANGED <<crVars, pipeVars, toolVars>>

\* ------------------------------------------------- subarray files
MaxSub == 2

\* origins (times two) of a subarray along an axis of length n: inside,
\* at the far edge, beyond it, before the start, and between two pixels
OriginChoices(n) == {0, 3, 2 * (n - 2), 2 * (n - 1), 2 * n, -2, -4}

\* a subarray plane whose element (r, c) is base + 10 r + c
SubPlane(ny, nx, dtype, base) ==
    [shape |-> <<ny, nx>>, dtype |-> dtype, fill |-> 0,
     cells |-> [q \in (0..(ny - 1)) \X (0..(nx - 1)) |-> base + 10 * q[1] + q[2]]]

GeometryKeys == {"NAXIS1", "NAXIS2", "LTV1", "LTV2", "CRPIX1", "CRPIX2"}

\* a subarray _flt file: kind "same" gives ERR and DQ the geometry keywords
\* of SCI, "bare" leaves CRPIX and LTV out of them, "own" gives them a
\* CRPIX of their own
SubarrayFile(ny, nx, oy, ox, kind) ==
    LET scihdr == [k \in GeometryKeys \cup {"SIZAXIS1", "SIZAXIS2"} |->
                     CASE k = "NAXIS1" -> nx [] k = "NAXIS2" -> ny
                       [] k = "LTV1" -> -ox [] k = "LTV2" -> -oy
                       [] k = "CRPIX1" -> 20 [] k = "CRPIX2" -> 10
                       [] k = "SIZAXIS1" -> nx [] k = "SIZAXIS2" -> ny]
        exthdr == IF kind = "bare"
                  THEN [k \in {"NAXIS1", "NAXIS2"} |-> scihdr[k]]
                  ELSE [k \in GeometryKeys |->
                          IF kind = "own" /\ k \in {"CRPIX1", "CRPIX2"}
                          THEN scihdr[k] + 2 ELSE scihdr[k]]
    IN [SUBARRAY |-> TRUE,
        SCI |-> [hdr |-> scihdr, data |-> SubPlane(ny, nx, "float32", 100)],
        ERR |-> [hdr |-> exthdr, data |-> SubPlane(ny, nx, "float32", 200)],
        DQ |-> [hdr |-> exthdr, data |-> SubPlane(ny, nx, "int16", 0)]]

Paths == [dir : {"raw", "full"}, stem : {"ib_"}, tail : {"flt.fits", "raw.fits"}]

EmbedInit ==
    /\ path \in {q \in Paths : q.dir = "raw"}
    /\ sub_dir \in {"raw", "full"}
    /\ \E ny \in 1..MaxSub, nx \in 1..MaxSub, oy \in OriginChoices(y_axis),
          ox \in OriginChoices(x_axis), kind \in {"same", "bare", "own"} :
          /\ fs = [q \in {path} |-> SubarrayFile(ny, nx, oy, ox, kind)]
          /\ src0 = SubarrayFile(ny, nx, oy, ox, kind)
    /\ path_f = <<>>
    /\ epc = "start"

EmbedIdle ==
    /\ fs = <<>> /\ path = <<>> /\ sub_dir = "" /\ path_f = <<>>
    /\ epc = "idle" /\ src0 = <<>>

CRIdle ==
    /\ fn = "" /\ pc = "off" /\ calls = 0 /\ heap = <<>> /\ time_series = 0
    /\ cr = 0 /\ mask = NoMask /\ i = 0 /\ n_sigma = <<1, 1>> /\ n_iter = 0
    /\ size = 3 /\ input0 = <<>> /\ prev0 = <<>> /\ lastflag = <<>>

EmbedNext == EmbedCopy \/ EmbedSameFile \/ EmbedUpdate \/ EmbedShapeError

\* -------------------------------------------------- fit_spectral_trace
\* Pixel offsets and positions are stored times two (halves are exact);
\* wavelengths are integers in Angstroms.  A 1-D array is a sequence.
MaxTrace == 3

\* what DISPX can return for t = 0 and t = 1 (times two)
OffsetChoices == (-1)..(2 * MaxTrace)
\* wavelengths that DISPL can return, around the window [2000, 8000]
WavelengthChoices == {1000, 2000, 8000, 9000}
\* cross-dispersion offsets that DISPY can return (times two)
CrossChoices == {0, 3}

\* np.sort of the two-element DISPX result
SortPair(d) == IF d[1] <= d[2] THEN d ELSE <<d[2], d[1]>>

\* number of elements of np.arange(start, stop, 1): ceil(stop - start)
ArangeLen(start, stop) == IF stop > start THEN (stop - start + 1) \div 2 ELSE 0

\* np.arange(stop, start, -1): counting down from the far end
ArangeFromStop(start, stop) ==
    [k \in 1..ArangeLen(start, stop) |-> stop - 2 * (k - 1)]

\* np.arange(start, stop, 1)
Arange(start, stop) ==
    [k \in 1..ArangeLen(start, stop) |-> start + 2 * (k - 1)]

\* (wavelength > wl_min) & (wavelength < wl_max)
MaskWlExclusive(w, lo, hi) == [k \in 1..Len(w) |-> w[k] > lo /\ w[k] < hi]

\* (wavelength >= wl_min) & (wavelength <= wl_max)
MaskWl(w, lo, hi) == [k \in 1..Len(w) |-> w[k] >= lo /\ w[k] <= hi]

RECURSIVE BoolIndex(_, _)
\* a[m] for a boolean array m: the entries of a where m is True, in order
BoolIndex(a, m) ==
    IF Len(a) = 0 THEN <<>>
    ELSE (IF Head(m) THEN <<Head(a)>> ELSE <<>>) \o BoolIndex(Tail(a), Tail(m))

\* array + scalar
AddScalar(a, v) == [k \in 1..Len(a) |-> a[k] + v]

\* the sensitivity interpolator fs of the order, applied to one wavelength
SensAt(w) == w \div 1000 + 1

TraceInit ==
    \E d \in OffsetChoices \X OffsetChoices, sx \in {0, 7}, lo \in {2000}, hi \in {8000} :
        /\ ArangeLen(SortPair(d)[1], SortPair(d)[2]) <= MaxTrace
        /\ trace_call = [pc |-> "start", source_x |-> sx, source_y |-> 4,
                         wl_min |-> lo, wl_max |-> hi, DISPX |-> d]

\* lines 271-273: the offsets of the two ends, sorted, and the unit grid
\* between them
TraceGrid ==
    /\ trace_call.pc = "start"
    /\ LET d == SortPair(trace_call.DISPX)
       IN trace_call' = [pc |-> "grid", source_x |-> trace_call.source_x,
                         source_y |-> trace_call.source_y,
                         wl_min |-> trace_call.wl_min, wl_max |-> trace_call.wl_max,
                         DISPX |-> trace_call.DISPX,
                         disp_x |-> Arange(d[1], d[2])]
    /\ UNCHANGED <<crVars, embedVars, extract_call, light_call, toolVars>>

\* lines 276-282: INVDISPX, DISPY and DISPL are elementwise, so entry k of
\* disp_y and of wavelength is a value the dispersion model gives for
\* entry k of disp_x
TraceSolve ==
    /\ trace_call.pc = "grid"
    /\ \E dy \in [1..Len(trace_call.disp_x) -> CrossChoices],
          wl \in [1..Len(trace_call.disp_x) -> WavelengthChoices] :
          trace_call' = [pc |-> "solved", source_x |-> trace_call.source_x,
                         source_y |-> trace_call.source_y,
                         wl_min |-> trace_call.wl_min, wl_max |-> trace_call.wl_max,
                         DISPX |-> trace_call.DISPX,
                         disp_x |-> trace_call.disp_x, disp_y |-> dy, wavelength |-> wl,
                         disp_x0 |-> trace_call.disp_x, disp_y0 |-> dy, wavelength0 |-> wl]
    /\ UNCHANGED <<crVars, embedVars, extract_call, light_call, toolVars>>

\* lines 285-299: trim the three arrays with one mask, shift by the source
\* position, evaluate the sensitivity and return
TraceTrim ==
    /\ trace_call.pc = "solved"
    /\ LET mask_wl == MaskWl(trace_call.wavelength, trace_call.wl_min, trace_call.wl_max)
           dx == BoolIndex(trace_call.disp_x, mask_wl)
           dy == BoolIndex(trace_call.disp_y, mask_wl)
           wl == BoolIndex(trace_call.wavelength, mask_wl)
       IN trace_call' = [trace_call EXCEPT
                            !.pc = "done", !.disp_x = dx, !.disp_y = dy,
                            !.wavelength = wl] @@
                        [trace_x |-> AddScalar(dx, trace_call.source_x),
                         trace_y |-> AddScalar(dy, trace_call.source_y),
                         sensitivity |-> [k \in 1..Len(wl) |-> SensAt(wl[k])]]
    /\ UNCHANGED <<crVars, embedVars, extract_call, light_call, toolVars>>

TraceNext == TraceGrid \/ TraceSolve \/ TraceTrim

\* ---------------------------------------------------- extract_spectrum
\* y_min, y_max and trace_x are floats stored times two.  An image is
\* [shape, data] with data[<<r, c>>] for r, c counted from 0.
MaxRows == 2
MaxCols == 3
MaxTraceX == 2

\* np.sqrt(v): the non-negative root of v, or NaN for a negative v,
\* kept as the number under the root
NaN == [kind |-> "nan"]
Sqrt(v) == IF v < 0 THEN NaN ELSE [kind |-> "root", of |-> v]

SeqMin(a) == CHOOSE v \in {a[k] : k \in 1..Len(a)} : \A k \in 1..Len(a) : v <= a[k]
SeqMax(a) == CHOOSE v \in {a[k] : k \in 1..Len(a)} : \A k \in 1..Len(a) : v >= a[k]

\* x_max = int(np.max(trace_x)): the last trace column is left out
ApertureStopExclusive(trace_x) == IntOf(SeqMax(trace_x))

\* x_max = int(np.max(trace_x)) + 1
ApertureStop(trace_x) == IntOf(SeqMax(trace_x)) + 1

\* img[rows, cols] for two slices: the selected region as an array whose
\* element (r, c) is img[first row + r, first column + c]
Sliced(img, rows, cols) ==
    [shape |-> <<Cardinality(rows), Cardinality(cols)>>,
     data |-> [q \in (0..(Cardinality(rows) - 1)) \X (0..(Cardinality(cols) - 1)) |->
                 img.data[<<SetMin(rows) + q[1], SetMin(cols) + q[2]>>]]]

\* np.sum(a ** pw, axis=0) of a 2-D array, as a sequence over the columns
ColumnSums(a, pw) ==
    [j \in 1..a.shape[2] |->
        SumTo([r \in 1..a.shape[1] |-> Power(a.data[<<r - 1, j - 1>>], pw)], a.shape[1])]

\* the SCI or ERR image of a file: pixel (r, c) is base + 10 r + c
ImageOf(h, w, base) ==
    [shape |-> <<h, w>>,
     data |-> [q \in (0..(h - 1)) \X (0..(w - 1)) |-> base + 10 * q[1] + q[2]]]

\* aperture rows and trace positions (times two): before the image, on
\* its edges, between two pixels, inside and beyond it
RowChoices == {-2, 0, 1, 2, 2 * MaxRows, 2 * MaxRows + 2}
ColumnChoices == {-3, -1, 0, 3, 2 * (MaxCols - 1), 2 * MaxCols}

ExtractInit ==
    \E h \in 1..MaxRows, w \in 1..MaxCols, lo \in RowChoices, hi \in RowChoices,
       n \in 1..MaxTraceX :
       \E tx \in [1..n -> ColumnChoices] :
          extract_call = [pc |-> "start", y_min |-> lo, y_max |-> hi, trace_x |-> tx,
                          data |-> ImageOf(h, w, 1), err |-> ImageOf(h, w, 2)]

\* lines 329-334: the integer aperture and the two slices
ExtractSlice ==
    /\ extract_call.pc = "start"
    /\ LET y0 == IntOf(extract_call.y_min)
           y1 == IntOf(extract_call.y_max)
           x0 == IntOf(SeqMin(extract_call.trace_x))
           x1 == ApertureStop(extract_call.trace_x)
           rows == SliceIndices(y0, y1, extract_call.data.shape[1])
           cols == SliceIndices(x0, x1, extract_call.data.shape[2])
       IN extract_call' =
            [pc |-> "sliced", y_min |-> y0, y_max |-> y1, x_min |-> x0, x_max |-> x1,
             trace_x |-> extract_call.trace_x,
             data |-> extract_call.data, err |-> extract_call.err,
             y_min0 |-> extract_call.y_min, y_max0 |-> extract_call.y_max,
             data_aperture_trace |-> Sliced(extract_call.data, rows, cols),
             err_aperture_trace |-> Sliced(extract_call.err, rows, cols)]
    /\ UNCHANGED <<crVars, embedVars, trace_call, light_call, toolVars>>

\* lines 337-340: the column sums and the quadrature sum of the errors
ExtractSum ==
    /\ extract_call.pc = "sliced"
    /\ LET sq == ColumnSums(extract_call.err_aperture_trace, 2)
       IN extract_call' =
            [extract_call EXCEPT !.pc = "done"] @@
            [counts |-> ColumnSums(extract_call.data_aperture_trace, 1),
             counts_err |-> [j \in 1..Len(sq) |-> Sqrt(sq[j])]]
    /\ UNCHANGED <<crVars, embedVars, trace_call, light_call, toolVars>>

ExtractNext == ExtractSlice \/ ExtractSum

\* ---------------------------------------------------- make_light_curve
\* time_series_counts is a sequence of exposures, each a sequence of bins.
MaxBins == 2
MaxLightExp == 2

\* wavelengths of the bins: on wl_min, inside the window, on wl_max
BinChoices == {2000, 5000, 8000}
\* counts of one bin of one exposure
CountChoices == {-1, 0, 2}

\* (wavelength >= wl_min) & (wavelength <= wl_max), as fit_spectral_trace has it
LightMaskInclusive(w, lo, hi) == [k \in 1..Len(w) |-> w[k] >= lo /\ w[k] <= hi]

\* mask_wl of line 367: (wavelength > wl_min) & (wavelength < wl_max)
LightMask(w, lo, hi) == [k \in 1..Len(w) |-> w[k] > lo /\ w[k] < hi]

\* a.T of an (n_exp, n_bins) array
Transposed(a, n_bins) == [b \in 1..n_bins |-> [e \in 1..Len(a) |-> a[e][b]]]

\* np.sum(rows, axis=0) of a (k, n_exp) array: zeros when k = 0
SumAxis0(rows, n_exp) ==
    [e \in 1..n_exp |-> SumTo([k \in 1..Len(rows) |-> rows[k][e]], Len(rows))]

\* root / c in IEEE arithmetic: NaN propagates, 0 / 0 is NaN, x / 0 is
\* infinite, anything else is the finite quotient
Divide(root, c) ==
    IF root.kind = "nan" THEN NaN
    ELSE IF c = 0 THEN (IF root.of = 0 THEN NaN ELSE [kind |-> "inf"])
    ELSE [kind |-> "quotient", root_of |-> root.of, by |-> c]

LightInit ==
    \E nb \in 1..MaxBins, ne \in 1..MaxLightExp :
       \E w \in [1..nb -> BinChoices], c \in [1..ne -> [1..nb -> CountChoices]] :
          light_call = [pc |-> "start", wavelength |-> w, time_series_counts |-> c,
                        wl_min |-> 2000, wl_max |-> 8000]

\* lines 367-370: the mask and the sum over the selected bins
LightSum ==
    /\ light_call.pc = "start"
    /\ LET mask_wl == LightMask(light_call.wavelength, light_call.wl_min, light_call.wl_max)
           selected == BoolIndex(Transposed(light_call.time_series_counts,
                                            Len(light_call.wavelength)), mask_wl)
       IN light_call' =
            [light_call EXCEPT !.pc = "summed"] @@
            [mask_wl |-> mask_wl,
             lc_counts |-> SumAxis0(selected, Len(light_call.time_series_counts))]
    /\ UNCHANGED <<crVars, embedVars, trace_call, extract_call, toolVars>>

\* lines 373-375: np.sqrt(lc_counts) / lc_counts, elementwise, and return
LightErr ==
    /\ light_call.pc = "summed"
    /\ light_call' =
         [light_call EXCEPT !.pc = "done"] @@
         [lc_counts_err |->
             [e \in 1..Len(light_call.lc_counts) |->
                 Divide(Sqrt(light_call.lc_counts[e]), light_call.lc_counts[e])]]
    /\ UNCHANGED <<crVars, embedVars, trace_call, extract_call, toolVars>>

LightNext == LightSum \/ LightErr

\* ------------------------------------------------------- stack_cutouts
\* psf_utilities.py.  input_array is a sequence of cutouts, each a sequence
\* of pixels; a stacked pixel is a fraction <<numerator, denominator>>.
MaxSources == 2
MaxPix == 2

PixelChoices == {0, 1, 2}
StackTypeChoices == {"mean", "median", "Median", ""}
ExportChoices == {"", "psf.fits"}

\* every stack_type reaches a stacking branch
AnyStackType(t) == TRUE

\* lines 521-526: the two branches that do not raise
KnownStackType(t) == t \in {"mean", "median"}

\* np.mean(input_array, axis=0)
MeanAxis0(a) ==
    [p \in 1..Len(a[1]) |-> <<SumTo([s \in 1..Len(a) |-> a[s][p]], Len(a)), Len(a)>>]

\* np.median(input_array, axis=0)
MedianAxis0(a) ==
    LET n == Len(a)
    IN [p \in 1..Len(a[1]) |->
          LET col == [s \in 1..n |-> a[s][p]]
          IN IF n % 2 = 1 THEN <<Kth(col, (n - 1) \div 2), 1>>
             ELSE <<Kth(col, n \div 2 - 1) + Kth(col, n \div 2), 2>>]

\* stacked_image / np.sum(stacked_image): every pixel of one stack has the
\* same denominator, and a total of 0 (all pixels 0 here) gives 0 / 0
ScaledToUnity(img) ==
    LET total == SumTo([p \in 1..Len(img) |-> img[p][1]], Len(img))
    IN [p \in 1..Len(img) |-> IF total = 0 THEN NaN ELSE <<img[p][1], total>>]

StackInit ==
    \E n \in 1..MaxSources, np \in 1..MaxPix :
       \E a \in [1..n -> [1..np -> PixelChoices]], t \in StackTypeChoices,
          sf \in BOOLEAN, ef \in ExportChoices, old \in BOOLEAN :
          /\ stack_call = [pc |-> "start", input_array |-> a, rpix |-> np,
                           stack_type |-> t, scale_flux |-> sf, export_file |-> ef,
                           stacked_image |-> <<>>, figure |-> <<>>,
                           returned |-> <<>>]
          /\ disk = IF old THEN [f \in {"psf.fits"} |-> <<"old">>]
                    ELSE [f \in {} |-> <<>>]
          /\ cwd = <<"work">>
          /\ copy_call = [pc |-> "off"]
          /\ make_call = [pc |-> "off"]

\* lines 521-524: the stack of a known stack_type
StackCombine ==
    /\ stack_call.pc = "start"
    /\ KnownStackType(stack_call.stack_type)
    /\ stack_call' =
         [stack_call EXCEPT
            !.pc = "stacked",
            !.stacked_image = IF stack_call.stack_type = "mean"
                              THEN MeanAxis0(stack_call.input_array)
                              ELSE MedianAxis0(stack_call.input_array)]
    /\ UNCHANGED <<copy_call, make_call, disk, cwd>>
    /\ UNCHANGED <<crVars, embedVars, pipeVars>>

\* lines 525-526: raise ValueError
StackRaise ==
    /\ stack_call.pc = "start"
    /\ ~KnownStackType(stack_call.stack_type)
    /\ stack_call' = [stack_call EXCEPT !.pc = "raised"]
    /\ UNCHANGED <<copy_call, make_call, disk, cwd>>
    /\ UNCHANGED <<crVars, embedVars, pipeVars>>

\* lines 531-537: the optional scaling, then the figure of plot_cutouts
StackPlot ==
    /\ stack_call.pc = "stacked"
    /\ LET img == IF stack_call.scale_flux
                  THEN ScaledToUnity(stack_call.stacked_image)
                  ELSE stack_call.stacked_image
       IN stack_call' =
            [stack_call EXCEPT
               !.pc = "plotted",
               !.stacked_image = img,
               !.figure = [data |-> img, rpix |-> stack_call.rpix]]
    /\ UNCHANGED <<copy_call, make_call, disk, cwd>>
    /\ UNCHANGED <<crVars, embedVars, pipeVars>>

\* lines 539-543: writeto(export_file, overwrite=True) unless the name is
\* empty, then return stacked_image, figure
StackExport ==
    /\ stack_call.pc = "plotted"
    /\ disk' = IF stack_call.export_file # ""
               THEN [f \in DOMAIN disk \cup {stack_call.export_file} |->
                        IF f = stack_call.export_file
                        THEN <<"psf", stack_call.stacked_image>>
                        ELSE disk[f]]
               ELSE disk
    /\ stack_call' =
         [stack_call EXCEPT
            !.pc = "done",
            !.returned = <<stack_call.stacked_image, stack_call.figure>>]
    /\ UNCHANGED <<copy_call, make_call, cwd>>
    /\ UNCHANGED <<crVars, embedVars, pipeVars>>

StackNext == StackCombine \/ StackRaise \/ StackPlot \/ StackExport

\* ---------------------------------------------------- copy_files_check
\* copy_files.py.  A directory is a sequence of path components and a file
\* name a record [stem, tag] that stands for "<stem>_<tag>.fits"; disk maps
\* <<directory, name>> to what is there.  The entry <<directory, DirMark>>
\* is the directory itself.
MaxFiles == 2
MaxCopyCalls == 2

DirMark == [stem |-> ".", tag |-> ""]
FileA == [stem |-> "a", tag |-> "raw"]
FileB == [stem |-> "b", tag |-> "raw"]
SubDir == [stem |-> "sub", tag |-> ""]
NameChoices == {FileA, FileB, SubDir}
\* the pattern '*', the default of files
Star == [stem |-> "*", tag |-> ""]
DstDirChoices == {"dst", "src"}

\* os.path.abspath(d) of a relative name d
Abspath(d) == cwd \o <<d>>
\* os.path.join(dir, file)
Join(dir, file) == <<dir, file>>

IsDir(d, dir) == <<dir, DirMark>> \in DOMAIN d
DirEntry(w) == [kind |-> "dir", writable |-> w]
FileEntry(c) == [kind |-> "file", data |-> c]

\* os.path.isfile(file) with the process in directory dir
IsFile(d, dir, file) == Join(dir, file) \in DOMAIN d /\ d[Join(dir, file)].kind = "file"

\* the existence test that never finds the destination
DestinationNever(d, p) == FALSE

\* os.path.exists(dst_full) of line 118
DestinationExists(d, p) == p \in DOMAIN d

\* file.replace(src_str, dst_str) on the tag of a name
Replaced(file, s, t) == IF file.tag = s THEN [file EXCEPT !.tag = t] ELSE file

\* glob.glob('*') in directory dir: its entries, in any order
GlobStar(d, dir) ==
    LET E == {k[2] : k \in {q \in DOMAIN d : q[1] = dir /\ q[2] # DirMark}}
    IN {s \in [1..Cardinality(E) -> E] : \A a, b \in 1..Cardinality(E) : s[a] = s[b] => a = b}

\* lists of at most MaxFiles names
FileLists == UNION {[1..n -> NameChoices] : n \in 1..MaxFiles}

Put(d, p, v) == [q \in DOMAIN d \cup {p} |-> IF q = p THEN v ELSE d[q]]
Removed(d, p) == [q \in DOMAIN d \ {p} |-> d[q]]

\* the source directory holds a_raw.fits, and maybe b_raw.fits and a
\* subdirectory; the destination is missing, empty, holds an older
\* a_raw.fits, or is read-only
CopyDisks ==
    LET src == <<"work", "src">>
        dst == <<"work", "dst">>
        base == (<<src, DirMark>> :> DirEntry(TRUE)) @@
                (<<src, FileA>> :> FileEntry(<<"src", "a">>))
        withB == {base, base @@ (<<src, FileB>> :> FileEntry(<<"src", "b">>))}
        withSub == withB \cup {b @@ (<<src, SubDir>> :> DirEntry(TRUE)) : b \in withB}
        dsts == {<<>>,
                 (<<dst, DirMark>> :> DirEntry(TRUE)),
                 (<<dst, DirMark>> :> DirEntry(TRUE)) @@
                    (<<dst, FileA>> :> FileEntry(<<"old">>)),
                 (<<dst, DirMark>> :> DirEntry(FALSE))}
    IN {s @@ t : s \in withSub, t \in dsts}

CopyInit ==
    /\ disk \in CopyDisks
    /\ cwd = <<"work">>
    /\ copy_call = [pc |-> "idle", calls |-> 0]
    /\ stack_call = [pc |-> "off"]
    /\ make_call = [pc |-> "off"]

\* lines 56-101 of one call: the working directory is saved and changed,
\* the file list is globbed when it is a string, and the destination
\* directory is made when it does not exist
CopyEnter ==
    /\ copy_call.pc = "idle"
    /\ \E dd \in DstDirChoices, rn \in BOOLEAN, mv \in BOOLEAN, pr \in BOOLEAN,
          fl \in FileLists \cup {<<Star>>} :
          LET src_dir_full == Abspath("src")
              dst_dir_full == Abspath(dd)
              args == [calls |-> copy_call.calls, src_dir |-> "src", dst_dir |-> dd,
                       rename |-> rn, src_str |-> "raw", dst_str |-> "flt",
                       move |-> mv, print_cmd |-> pr, cwd0 |-> cwd, disk0 |-> disk,
                       src_dir_full |-> src_dir_full, dst_dir_full |-> dst_dir_full]
          IN IF ~IsDir(disk, src_dir_full)
             THEN \* os.chdir raises FileNotFoundError
                  /\ copy_call' = args @@ [pc |-> "raised", error |-> "FileNotFoundError",
                                           calls |-> copy_call.calls + 1]
                  /\ UNCHANGED <<disk, cwd>>
             ELSE /\ cwd' = src_dir_full
                  /\ disk' = IF IsDir(disk, dst_dir_full) THEN disk
                             ELSE Put(disk, <<dst_dir_full, DirMark>>, DirEntry(TRUE))
                  /\ \E files \in (IF fl = <<Star>> THEN GlobStar(disk, src_dir_full) ELSE {fl}) :
                        copy_call' = args @@ [pc |-> "loop", files_ext |-> (fl = <<Star>>),
                                              files |-> files, k |-> 1, n |-> 0,
                                              cmd |-> <<>>]
    /\ UNCHANGED <<stack_call, make_call>>
    /\ UNCHANGED <<crVars, embedVars, pipeVars>>

ThisFile == copy_call.files[copy_call.k]
InLoop == copy_call.pc = "loop" /\ copy_call.k <= Len(copy_call.files)
DstFull == Join(copy_call.dst_dir_full, ThisFile)
SrcFull == Join(copy_call.src_dir_full, ThisFile)
NextFile == [copy_call EXCEPT !.k = @ + 1]

\* lines 103 and 137: the entry is not a regular file; lines 118 and
\* 132-136: the destination exists already
CopySkip ==
    /\ InLoop
    /\ \/ ~IsFile(disk, cwd, ThisFile)
       \/ /\ ~copy_call.rename
          /\ DestinationExists(disk, DstFull)
    /\ copy_call' = NextFile
    /\ UNCHANGED <<stack_call, make_call, disk, cwd>>
    /\ UNCHANGED <<crVars, embedVars, pipeVars>>

\* line 114: the name ddst_dir_full is not defined, so NameError is raised
CopyNameError ==
    /\ InLoop
    /\ IsFile(disk, cwd, ThisFile)
    /\ copy_call.rename
    /\ copy_call' = [copy_call EXCEPT !.pc = "raised"] @@
                    [error |-> "NameError", calls |-> copy_call.calls + 1]
    /\ UNCHANGED <<stack_call, make_call, disk, cwd>>
    /\ UNCHANGED <<crVars, embedVars, pipeVars>>

Ready ==
    /\ InLoop
    /\ IsFile(disk, cwd, ThisFile)
    /\ ~copy_call.rename
    /\ ~DestinationExists(disk, DstFull)

\* lines 120-126 and 131: shutil.copy or shutil.move into a directory that
\* can be written
CopyTransfer ==
    /\ Ready
    /\ ~copy_call.print_cmd
    /\ disk[<<copy_call.dst_dir_full, DirMark>>].writable
    /\ disk' = IF copy_call.move
               THEN Put(Removed(disk, SrcFull), DstFull, disk[SrcFull])
               ELSE Put(disk, DstFull, disk[SrcFull])
    /\ copy_call' = [NextFile EXCEPT !.n = @ + 1]
    /\ UNCHANGED <<stack_call, make_call, cwd>>
    /\ UNCHANGED <<crVars, embedVars, pipeVars>>

\* lines 123 and 126: the destination directory is read-only, so shutil
\* raises PermissionError
CopyDenied ==
    /\ Ready
    /\ ~copy_call.print_cmd
    /\ ~disk[<<copy_call.dst_dir_full, DirMark>>].writable
    /\ copy_call' = [copy_call EXCEPT !.pc = "raised"] @@
                    [error |-> "PermissionError", calls |-> copy_call.calls + 1]
    /\ UNCHANGED <<stack_call, make_call, disk, cwd>>
    /\ UNCHANGED <<crVars, embedVars, pipeVars>>

\* lines 128-131: the command is extended instead
CopyCommand ==
    /\ Ready
    /\ copy_call.print_cmd
    /\ copy_call' =
         [NextFile EXCEPT
            !.n = @ + 1,
            !.cmd = Append(@, <<IF copy_call.move THEN "mv" ELSE "cp", SrcFull, DstFull>>)]
    /\ UNCHANGED <<stack_call, make_call, disk, cwd>>
    /\ UNCHANGED <<crVars, embedVars, pipeVars>>

\* lines 140-159: back to the saved directory, then the command (the
\* one-line form when every globbed file is to be copied) or None
CopyReturn ==
    /\ copy_call.pc = "loop"
    /\ copy_call.k > Len(copy_call.files)
    /\ cwd' = copy_call.cwd0
    /\ copy_call' =
         [copy_call EXCEPT !.pc = "done"] @@
         [calls |-> copy_call.calls + 1,
          returned |->
             IF ~copy_call.print_cmd THEN <<>>
             ELSE IF /\ copy_call.files_ext
                     /\ Len(copy_call.files) = copy_call.n
                     /\ ~copy_call.rename
                  THEN <<<<IF copy_call.move THEN "mv" ELSE "cp",
                           Join(copy_call.src_dir_full, Star), copy_call.dst_dir_full>>>>
                  ELSE copy_call.cmd]
    /\ UNCHANGED <<stack_call, make_call, disk>>
    /\ UNCHANGED <<crVars, embedVars, pipeVars>>

\* the caller goes on to its next call, in the directory and on the disk
\* that the call before left
CopyAgain ==
    /\ copy_call.pc \in {"done", "raised"}
    /\ copy_call.calls < MaxCopyCalls
    /\ copy_call' = [pc |-> "idle", calls |-> copy_call.calls]
    /\ UNCHANGED <<stack_call, make_call, disk, cwd>>
    /\ UNCHANGED <<crVars, embedVars, pipeVars>>

CopyNext ==
    \/ CopyEnter \/ CopySkip \/ CopyNameError \/ CopyTransfer \/ CopyDenied
    \/ CopyCommand \/ CopyReturn \/ CopyAgain

\* ------------------------------------------------------------ make_file
\* make_dependabot_file.py.  A string is a sequence of tokens: a token is a
\* piece of text without line breaks, or one of the characters LF and CR.
\* A file is the string written to it.
MaxRuns == 3

LF == "\n"
CR == "\r"

\* the requirements.txt paths the search string can match, in the order of
\* Python's string comparison; the second has a line feed in a directory
\* name, the third a carriage return
AllPaths ==
    <<<<"notebooks/A/v/", "requirements.txt">>,
      <<"notebooks/A/w", LF, "z/", "requirements.txt">>,
      <<"notebooks/A/x", CR, "z/", "requirements.txt">>,
      <<"notebooks/B/y/", "requirements.txt">>>>

PathChoices == {AllPaths[k] : k \in 1..Len(AllPaths)}
output_file_name == ".github/dependabot.yml"

RECURSIVE Flat(_)
\* the concatenation of a list of strings (by halves, to keep the
\* evaluation shallow)
Flat(ss) ==
    IF Len(ss) = 0 THEN <<>>
    ELSE IF Len(ss) = 1 THEN ss[1]
    ELSE LET m == Len(ss) \div 2
         IN Flat(SubSeq(ss, 1, m)) \o Flat(SubSeq(ss, m + 1, Len(ss)))

\* s.replace(old, "") for a token old
Without(s, old) == SelectSeq(s, LAMBDA t : t # old)

\* lines 27-36: the six lines of one section
generate_file_content_from_template(ecosystem, directory) ==
    <<<<"  - package-ecosystem: \"">> \o ecosystem \o <<"\"">>,
      <<"    directory: \"">> \o directory \o <<"\"">>,
      <<"    schedule:">>,
      <<"     interval: \"weekly\"">>,
      <<"     day: \"sunday\"">>,
      <<"     time: \"12:00\"">>>>

\* the list as glob.glob returned it
AsGlobbed(l) == l

Rank(p) == CHOOSE k \in 1..Len(AllPaths) : AllPaths[k] = p

\* sorted(req_file_list)
Sorted(l) ==
    LET S == {l[k] : k \in 1..Len(l)}
        at(j) == CHOOSE p \in S : Cardinality({q \in S : Rank(q) < Rank(p)}) = j - 1
    IN [j \in 1..Len(l) |-> at(j)]

\* lines 54-65 and 73: the generated lines, each with its line feed
OutputFileContent(req_file_list) ==
    LET sorted == Sorted(req_file_list)
        pip == Flat([k \in 1..Len(sorted) |->
                        generate_file_content_from_template(
                            <<"pip">>, Without(sorted[k], "requirements.txt"))])
        lines == <<<<"version: 2">>, <<"updates:">>>>
                 \o generate_file_content_from_template(<<"github-actions">>, <<"/">>)
                 \o pip
    IN [k \in 1..Len(lines) |-> lines[k] \o <<LF>>]

\* f_out.writelines(lines): the lines one after the other
Writelines(lines) == Flat(lines)

RECURSIVE Universal(_, _)
\* reading in text mode: CR LF and a lone CR both arrive as LF.  after_cr
\* tells whether the character before s was a CR.
Universal(s, after_cr) ==
    IF Len(s) = 0 THEN <<>>
    ELSE IF Len(s) = 1
         THEN IF s[1] = CR THEN <<LF>>
              ELSE IF s[1] = LF /\ after_cr THEN <<>>
              ELSE s
    ELSE LET m == Len(s) \div 2
         IN Universal(SubSeq(s, 1, m), after_cr)
            \o Universal(SubSeq(s, m + 1, Len(s)), s[m] = CR)

\* two lists of lines put together: a last line without a line feed goes
\* on in the first line of the next list
Joined(L, R) ==
    IF Len(L) = 0 THEN R
    ELSE IF Len(R) = 0 THEN L
    ELSE LET last == L[Len(L)]
         IN IF last[Len(last)] = LF THEN L \o R
            ELSE SubSeq(L, 1, Len(L) - 1) \o <<last \o R[1]>> \o SubSeq(R, 2, Len(R))

RECURSIVE SplitLines(_)
\* the lines of s, each kept with its line feed
SplitLines(s) ==
    IF Len(s) = 0 THEN <<>>
    ELSE IF Len(s) = 1 THEN <<s>>
    ELSE LET m == Len(s) \div 2
         IN Joined(SplitLines(SubSeq(s, 1, m)), SplitLines(SubSeq(s, m + 1, Len(s))))

\* f_in.readlines()
Readlines(s) == SplitLines(Universal(s, FALSE))

\* lines 68-72: the lines of the current file, or [] when there is none
OldFileContent == IF output_file_name \in DOMAIN disk THEN Readlines(disk[output_file_name]) ELSE <<>>

\* the orders in which glob.glob can list the set S of paths
Globbed(S) ==
    {s \in [1..Cardinality(S) -> S] : \A a, b \in 1..Cardinality(S) : s[a] = s[b] => a = b}

\* the tree holds any of the paths; dependabot.yml is missing, empty, or
\* what a run on some tree wrote
MakeInit ==
    /\ \E S \in SUBSET PathChoices :
          make_call = [pc |-> "idle", tree |-> S, runs |-> 0, wrote |-> <<>>, seen |-> <<>>]
    /\ \E c \in {<<>>, <<"absent">>} \cup
                {Writelines(OutputFileContent(Sorted(l))) :
                    l \in UNION {Globbed(S) : S \in SUBSET PathChoices}} :
          disk = IF c = <<"absent">> THEN [f \in {} |-> <<>>]
                 ELSE [f \in {output_file_name} |-> c]
    /\ cwd = <<"work">>
    /\ stack_call = [pc |-> "off"]
    /\ copy_call = [pc |-> "off"]

\* one run of make_file, lines 53-77, that finds a difference and writes
MakeWrite ==
    /\ make_call.runs < MaxRuns
    /\ \E req_file_list \in Globbed(make_call.tree) :
          LET output_file_content == OutputFileContent(req_file_list)
          IN /\ OldFileContent # output_file_content
             /\ disk' = [f \in {output_file_name} |-> Writelines(output_file_content)]
    /\ make_call' = [make_call EXCEPT !.runs = @ + 1,
                                      !.wrote = Append(@, TRUE),
                                      !.seen = Append(@, make_call.tree)]
    /\ UNCHANGED <<stack_call, copy_call, cwd>>
    /\ UNCHANGED <<crVars, embedVars, pipeVars>>

\* one run of make_file, lines 53-74 and 78-80, that finds no difference
MakeSkip ==
    /\ make_call.runs < MaxRuns
    /\ \E req_file_list \in Globbed(make_call.tree) :
          OldFileContent = OutputFileContent(req_file_list)
    /\ make_call' = [make_call EXCEPT !.runs = @ + 1,
                                      !.wrote = Append(@, FALSE),
                                      !.seen = Append(@, make_call.tree)]
    /\ UNCHANGED <<stack_call, copy_call, disk, cwd>>
    /\ UNCHANGED <<crVars, embedVars, pipeVars>>

\* between two runs a requirements.txt is added to or removed from the tree
MakeTreeChange ==
    /\ make_call.runs \in 1..(MaxRuns - 1)
    /\ make_call.seen[make_call.runs] = make_call.tree
    /\ \E p \in PathChoices :
          make_call' = [make_call EXCEPT
                          !.tree = IF p \in @ THEN @ \ {p} ELSE @ \cup {p}]
    /\ UNCHANGED <<stack_call, copy_call, disk, cwd>>
    /\ UNCHANGED <<crVars, embedVars, pipeVars>>

MakeNext == MakeWrite \/ MakeSkip \/ MakeTreeChange

\* no call of the tool functions is in progress
ToolIdle ==
    /\ stack_call = [pc |-> "off"]
    /\ copy_call = [pc |-> "off"]
    /\ make_call = [pc |-> "off"]
    /\ disk = [f \in {} |-> <<>>]
    /\ cwd = <<"work">>

\* ------------------------- fit_spectral_trace, then extract_spectrum
\* The caller hands the trace_x of fit_spectral_trace to extract_spectrum,
\* with an aperture over all rows of an image that is MaxCols columns wide
\* or wide enough for every trace of the model.
FrameCols == MaxTrace + 5

\* extract_spectrum(path, y_min, y_max, trace_x) is called with the
\* trace_x that fit_spectral_trace returned
PipeExtractCall ==
    /\ trace_call.pc = "done"
    /\ extract_call.pc = "off"
    /\ Len(trace_call.trace_x) > 0
    /\ \E h \in 1..MaxRows, w \in {MaxCols, FrameCols} :
          extract_call' = [pc |-> "start", y_min |-> 0, y_max |-> 2 * h,
                           trace_x |-> trace_call.trace_x,
                           data |-> ImageOf(h, w, 1), err |-> ImageOf(h, w, 2)]
    /\ UNCHANGED <<crVars, embedVars, trace_call, light_call, toolVars>>

\* lines 331-332: np.min of an empty trace_x raises ValueError
PipeExtractEmpty ==
    /\ trace_call.pc = "done"
    /\ extract_call.pc = "off"
    /\ Len(trace_call.trace_x) = 0
    /\ extract_call' = [pc |-> "raised", trace_x |-> trace_call.trace_x]
    /\ UNCHANGED <<crVars, embedVars, trace_call, light_call, toolVars>>

PipeInit ==
    /\ TraceInit
    /\ extract_call = [pc |-> "off"]
    /\ light_call = [pc |-> "off"]

PipeNext == TraceNext \/ PipeExtractCall \/ PipeExtractEmpty \/ ExtractNext

PipeIdle ==
    /\ trace_call = [pc |-> "off"]
    /\ extract_call = [pc |-> "off"]
    /\ light_call = [pc |-> "off"]

\* the cosmic-ray functions on the bounded stacks
Init == CRInit /\ EmbedIdle /\ PipeIdle /\ ToolIdle
Next == CRNext
Spec == Init /\ [][Next]_vars

\* remove_cosmic_rays_time alone on the bounded stacks and on the faint ones
InitTime == CRInitOn("time", Stacks \cup TinyStacks) /\ EmbedIdle /\ PipeIdle /\ ToolIdle
SpecTime == InitTime /\ [][TimeNext]_vars

\* remove_cosmic_rays_space alone on the bounded stacks
InitSpace == CRInitFor("space") /\ EmbedIdle /\ PipeIdle /\ ToolIdle
SpecSpace == InitSpace /\ [][SpaceNext]_vars

\* remove_cosmic_rays_time on the 5-exposure example
InitExample == ExampleInit /\ EmbedIdle /\ PipeIdle /\ ToolIdle
SpecExample == InitExample /\ [][TimeNext]_vars

\* embedsub_uvis on the subarray files
InitEmbed == EmbedInit /\ CRIdle /\ PipeIdle /\ ToolIdle
SpecEmbed == InitEmbed /\ [][EmbedNext]_vars

\* fit_spectral_trace on the bounded dispersion models
InitTrace ==
    /\ TraceInit /\ CRIdle /\ EmbedIdle /\ ToolIdle
    /\ extract_call = [pc |-> "off"] /\ light_call = [pc |-> "off"]
SpecTrace == InitTrace /\ [][TraceNext]_vars

\* extract_spectrum on the bounded images and apertures
InitExtract ==
    /\ ExtractInit /\ CRIdle /\ EmbedIdle /\ ToolIdle
    /\ trace_call = [pc |-> "off"] /\ light_call = [pc |-> "off"]
SpecExtract == InitExtract /\ [][ExtractNext]_vars

\* make_light_curve on the bounded spectra
InitLight ==
    /\ LightInit /\ CRIdle /\ EmbedIdle /\ ToolIdle
    /\ trace_call = [pc |-> "off"] /\ extract_call = [pc |-> "off"]
SpecLight == InitLight /\ [][LightNext]_vars

\* stack_cutouts on the bounded cutout stacks
InitStack == StackInit /\ CRIdle /\ EmbedIdle /\ PipeIdle
SpecStack == InitStack /\ [][StackNext]_vars

\* copy_files_check, called up to MaxCopyCalls times on the bounded disks
InitCopy == CopyInit /\ CRIdle /\ EmbedIdle /\ PipeIdle
SpecCopy == InitCopy /\ [][CopyNext]_vars

\* make_file, run up to MaxRuns times on the bounded trees
InitMake == MakeInit /\ CRIdle /\ EmbedIdle /\ PipeIdle
SpecMake == InitMake /\ [][MakeNext]_vars

\* fit_spectral_trace followed by extract_spectrum on its trace
InitPipe == PipeInit /\ CRIdle /\ EmbedIdle /\ ToolIdle
SpecPipe == InitPipe /\ [][PipeNext]_vars

\* ------------------------------------------------------------ claims
AllFalse(m) == \A p \in DOMAIN m.data : ~m.data[p]
SomeTrue(m) == \E p \in DOMAIN m.data : m.data[p]

\* C1: in remove_cosmic_rays_time every loop iteration leaves the cumulative
\* mask a superset of what it was: a position that is flagged stays flagged
\* through every later iteration and in the returned mask.
C1_MaskGrows ==
    [][(fn = "time" /\ pc = "loop")
         => \A p \in DOMAIN mask.data : mask.data[p] => mask'.data[p]]_vars

\* a second iteration has run, and a position flagged earlier was not
\* flagged again by it, yet is in the cumulative mask
C1_Witness ==
    /\ fn = "time" /\ pc = "loop" /\ i = 2
    /\ \E p \in DOMAIN mask.data : mask.data[p] /\ ~lastflag[p]

\* C2 as stated: for the 5-exposure stack with exposure 2, pixel (4,4) at
\* 1000 and everything else within 10 +- 1, n_sigma = 4 and n_iter = 2 give
\* a mask that is True at [2,4,4] only and a cleaned value near 10 there.
C2_ExampleFlagged ==
    pc = "done"
        => /\ \A p \in Positions(ExampleShape) : mask.data[p] <=> p = ExampleHit
           /\ heap[cr].data[ExampleHit] >= 9 * Scale
           /\ heap[cr].data[ExampleHit] <= 11 * Scale

\* C2, amended: for that stack, n_sigma = 4 and n_iter = 2 give a mask that
\* is False everywhere and a cleaned stack equal to the input: the value at
\* [2,4,4] is still 1000.
C2_ExampleUnflagged ==
    pc = "done"
        => /\ AllFalse(mask)
           /\ heap[cr].data = input0.data
           /\ heap[cr].data[ExampleHit] = ExampleHitValue

\* the example call has returned after its two iterations
C2_Witness ==
    /\ pc = "done" /\ fn = "time" /\ i = 2 /\ n_sigma = <<4, 1>>
    /\ input0.shape = ExampleShape
    /\ input0.data[ExampleHit] = ExampleHitValue
    /\ \A p \in Positions(ExampleShape) \ {ExampleHit} :
          input0.data[p] \in {9 * Scale, 10 * Scale, 11 * Scale}

\* C3: with n_iter = 0 remove_cosmic_rays_time returns the input stack
\* unchanged (same shape, dtype and values) and an all-False mask.
C3_ZeroIterations ==
    (fn = "time" /\ n_iter = 0 /\ pc = "done")
        => /\ heap[cr] = input0
           /\ mask.shape = input0.shape
           /\ AllFalse(mask)

\* a call with n_iter = 0 has returned for a stack that is not constant
C3_Witness ==
    /\ fn = "time" /\ n_iter = 0 /\ pc = "done" /\ i = 0
    /\ \E p \in DOMAIN input0.data : input0.data[p] # 0

\* C4: for a single-exposure stack remove_cosmic_rays_time flags no pixel in
\* any iteration and returns the input values, whatever n_sigma and n_iter.
C4_SingleExposure ==
    (fn = "time" /\ input0.shape[1] = 1 /\ pc \in {"loop", "done"})
        => /\ AllFalse(mask)
           /\ heap[cr].data = input0.data

\* a single-exposure stack with a bright pixel went through two iterations
C4_Witness ==
    /\ fn = "time" /\ input0.shape[1] = 1 /\ pc = "done" /\ i = 2
    /\ \E p \in DOMAIN input0.data : input0.data[p] # 0

\* C5: for both functions the cleaned stack differs from the input only at
\* positions whose mask entry is True.
C5_OnlyFlaggedChange ==
    pc \in {"loop", "done"}
        => \A p \in Positions(input0.shape) :
              ~mask.data[p] => heap[cr].data[p] = input0.data[p]

\* a returned stack with a flagged pixel that was changed next to an
\* unflagged pixel that differs from the background
C5_Witness ==
    /\ pc = "done" /\ fn = "space"
    /\ \E p \in Positions(input0.shape) :
          mask.data[p] /\ heap[cr].data[p] # input0.data[p]
    /\ \E p \in Positions(input0.shape) : ~mask.data[p] /\ input0.data[p] # 0

\* C6: neither function modifies the caller's stack, and the cleaned stack
\* is a buffer of its own.
C6_InputUntouched ==
    /\ heap[time_series] = input0
    /\ pc \in {"loop", "done"} => cr # time_series

\* a call has returned a cleaned stack that differs from its input
C6_Witness ==
    /\ pc = "done" /\ fn = "space" /\ heap[cr] # input0
    /\ heap[time_series] = input0

\* C7: the cleaned stack and the mask have the shape of the input, and the
\* cleaned stack has the dtype of the input.
C7_ShapeAndDType ==
    pc = "done"
        => /\ heap[cr].shape = input0.shape
           /\ mask.shape = input0.shape
           /\ heap[cr].dtype = input0.dtype

\* the one-exposure stack holding only image e of array a
OnlyExposure(a, e) ==
    [shape |-> <<1, a.shape[2], a.shape[3]>>, dtype |-> a.dtype,
     data |-> [p \in Positions(<<1, a.shape[2], a.shape[3]>>) |->
                 a.data[<<e, p[2], p[3]>>]]]

\* C8: every exposure of the stack and mask that remove_cosmic_rays_space
\* returns holds the cleaned image and mask that the input image of that
\* exposure alone gives: the other exposures have no influence.
C8_PerExposure ==
    (fn = "space" /\ pc = "done")
        => \A e \in 1..input0.shape[1] :
             LET one == OnlyExposure(input0, e)
                 flags == SpaceOutliers(one, 1, n_sigma, size)
             IN /\ OnlyExposure(mask, e).data = flags
                /\ OnlyExposure(heap[cr], e).data = SpaceStore(one, 1, flags, size).data

\* a returned stack of two exposures that differ, where the first was
\* changed and the second has a flagged pixel
C8_Witness ==
    /\ fn = "space" /\ pc = "done" /\ input0.shape[1] = 2
    /\ OnlyExposure(input0, 1) # OnlyExposure(input0, 2)
    /\ OnlyExposure(heap[cr], 1) # OnlyExposure(input0, 1)
    /\ \E y \in 1..input0.shape[2], x \in 1..input0.shape[3] : mask.data[<<2, y, x>>]

\* C9 as stated: a second call of remove_cosmic_rays_space on the cleaned
\* stack of a first call flags nothing and returns that stack unchanged.
C9_Idempotent ==
    (fn = "space" /\ pc = "done" /\ calls = 2)
        => AllFalse(mask) /\ heap[cr] = input0

\* the local statistics of image e are the same for the cleaned stack (the
\* input of the second call) as for the input of the first call
StableStatistics(e) ==
    \A y \in 1..input0.shape[2], x \in 1..input0.shape[3] :
        /\ MedianFilterAt(input0, e, y, x, size) = MedianFilterAt(prev0, e, y, x, size)
        /\ StdRadicand(input0, e, y, x, size) = StdRadicand(prev0, e, y, x, size)

\* C9, amended: the second call flags nothing in, and leaves unchanged,
\* every exposure whose median-filter and standard-deviation-filter images
\* are the same for the cleaned image as for the original image.
C9_IdempotentWhenStable ==
    (fn = "space" /\ pc = "done" /\ calls = 2)
        => \A e \in 1..input0.shape[1] :
             StableStatistics(e)
                => \A y \in 1..input0.shape[2], x \in 1..input0.shape[3] :
                     /\ ~mask.data[<<e, y, x>>]
                     /\ heap[cr].data[<<e, y, x>>] = input0.data[<<e, y, x>>]

\* a second call has returned for a stack with an exposure that the first
\* call changed and whose statistics it left stable
C9_Witness ==
    /\ fn = "space" /\ pc = "done" /\ calls = 2 /\ size = 3
    /\ \E e \in 1..input0.shape[1] :
          /\ StableStatistics(e)
          /\ OnlyExposure(prev0, e) # OnlyExposure(input0, e)

\* the window of the source file is inside the full frame
WindowFits(w) ==
    /\ 0 <= w.y_min /\ w.y_max <= y_axis
    /\ 0 <= w.x_min /\ w.x_max <= x_axis

\* plane `full` cropped to the window equals plane `sub`
CropEquals(full, w, sub) ==
    \A r \in 0..(w.y_max - w.y_min - 1), c \in 0..(w.x_max - w.x_min - 1) :
        At(full, w.y_min + r, w.x_min + c) = At(sub, r, c)

\* C10: when the placement window fits inside the 2051 x 4096 frame, the
\* SCI, ERR and DQ planes that embedsub_uvis writes, cropped back to rows
\* [y_min, y_max) and columns [x_min, x_max), equal the subarray data.
C10_RoundTrip ==
    (epc \in {"done", "error"} /\ path_f # path /\ WindowFits(PlacementWindow(src0.SCI.hdr)))
        => /\ epc = "done"
           /\ \A ext \in {"SCI", "ERR", "DQ"} :
                 /\ fs[path_f][ext].data.shape = <<y_axis, x_axis>>
                 /\ CropEquals(fs[path_f][ext].data, PlacementWindow(src0.SCI.hdr),
                               src0[ext].data)

\* a two-by-two subarray was embedded at the far corner of the frame
C10_Witness ==
    /\ epc = "done"
    /\ PlacementWindow(src0.SCI.hdr).y_min > 0 /\ PlacementWindow(src0.SCI.hdr).y_max = y_axis
    /\ PlacementWindow(src0.SCI.hdr).x_min > 0 /\ PlacementWindow(src0.SCI.hdr).x_max = x_axis
    /\ src0.SCI.hdr["NAXIS1"] = 2 /\ src0.SCI.hdr["NAXIS2"] = 2

\* pixel (r, c) of the full frame is inside the placement window
InWindow(w, r, c) == w.y_min <= r /\ r < w.y_max /\ w.x_min <= c /\ c < w.x_max

\* the value np.zeros(...) (+ 4 for DQ) gives every pixel of extension ext
FillOf(ext) == IF ext = "DQ" THEN 4 ELSE 0

\* C11: embedsub_uvis fails whenever the placement window is not entirely
\* inside the 2051 x 4096 frame: a call that completes had a window with
\* 0 <= y_min, y_max <= 2051, 0 <= x_min and x_max <= 4096.
C11_FailsOutside ==
    epc = "done" => WindowFits(PlacementWindow(src0.SCI.hdr))

\* C12: in the planes that a completed call wrote, every pixel outside the
\* placement window is 0 (SCI, ERR) or 4 (DQ), and every pixel of the frame
\* inside the window holds the subarray value.
C12_FillAndContent ==
    epc = "done"
        => LET w == PlacementWindow(src0.SCI.hdr)
           IN \A ext \in {"SCI", "ERR", "DQ"} :
                LET pl == fs[path_f][ext].data
                IN /\ pl.fill = FillOf(ext)
                   /\ \A q \in DOMAIN pl.cells :
                         ~InWindow(w, q[1], q[2]) => pl.cells[q] = FillOf(ext)
                   /\ \A r \in 0..(src0.SCI.hdr["NAXIS2"] - 1),
                         c \in 0..(src0.SCI.hdr["NAXIS1"] - 1) :
                         (/\ 0 <= w.y_min + r /\ w.y_min + r < y_axis
                          /\ 0 <= w.x_min + c /\ w.x_min + c < x_axis)
                            => At(pl, w.y_min + r, w.x_min + c) = At(src0[ext].data, r, c)

\* C13: after a completed call SIZAXIS1/SIZAXIS2 are 4096 and 2051, the
\* CRPIX1/CRPIX2 of each of SCI, ERR and DQ that has them are that
\* extension's original values plus (x_min, y_min), LTV1/LTV2 are 0 where
\* present, and SUBARRAY is False.
C13_GeometryKeywords ==
    epc = "done"
        => LET w == PlacementWindow(src0.SCI.hdr)
               out == fs[path_f]
           IN /\ out.SCI.hdr["SIZAXIS1"] = x_axis
              /\ out.SCI.hdr["SIZAXIS2"] = y_axis
              /\ out.SUBARRAY = FALSE
              /\ \A ext \in {"SCI", "ERR", "DQ"} :
                    /\ DOMAIN out[ext].hdr = DOMAIN src0[ext].hdr
                    /\ "CRPIX1" \in DOMAIN src0[ext].hdr
                          => /\ out[ext].hdr["CRPIX1"] = src0[ext].hdr["CRPIX1"] + 2 * w.x_min
                             /\ out[ext].hdr["CRPIX2"] = src0[ext].hdr["CRPIX2"] + 2 * w.y_min
                    /\ "LTV1" \in DOMAIN src0[ext].hdr
                          => out[ext].hdr["LTV1"] = 0 /\ out[ext].hdr["LTV2"] = 0

\* C14: the file at `path` holds after every step of embedsub_uvis,
\* completed or failed, what it held before the call.
C14_SourceUntouched ==
    epc \in {"start", "copied", "done", "error"} => fs[path] = src0

\* a call has completed and written a full frame to a copy that differs
\* from the source file
C14_Witness ==
    /\ epc = "done" /\ path_f # path
    /\ fs[path_f] # src0 /\ fs[path] = src0
    /\ fs[path_f].SCI.data.shape = <<y_axis, x_axis>>

\* the indices of the untrimmed arrays whose wavelength is in [wl_min, wl_max]
KeptIndices ==
    {k \in 1..Len(trace_call.wavelength0) :
        /\ trace_call.wl_min <= trace_call.wavelength0[k]
        /\ trace_call.wavelength0[k] <= trace_call.wl_max}

\* C15: trace_x, trace_y, wavelength and sensitivity have one length and are
\* co-indexed: entry j of each comes from the j-th index, in the original
\* order, whose wavelength w satisfies wl_min <= w <= wl_max.
C15_CoIndexed ==
    trace_call.pc = "done"
        => /\ Len(trace_call.trace_x) = Cardinality(KeptIndices)
           /\ Len(trace_call.trace_y) = Cardinality(KeptIndices)
           /\ Len(trace_call.wavelength) = Cardinality(KeptIndices)
           /\ Len(trace_call.sensitivity) = Cardinality(KeptIndices)
           /\ \A k \in KeptIndices :
                 LET j == Cardinality({q \in KeptIndices : q <= k})
                 IN /\ trace_call.trace_x[j] = trace_call.disp_x0[k] + trace_call.source_x
                    /\ trace_call.trace_y[j] = trace_call.disp_y0[k] + trace_call.source_y
                    /\ trace_call.wavelength[j] = trace_call.wavelength0[k]
                    /\ trace_call.sensitivity[j] = SensAt(trace_call.wavelength0[k])

\* a returned trace that kept an entry at exactly wl_min and one at exactly
\* wl_max and dropped the entry between them
C15_Witness ==
    /\ trace_call.pc = "done"
    /\ trace_call.wavelength0 = <<2000, 9000, 8000>>
    /\ trace_call.wavelength = <<2000, 8000>>
    /\ trace_call.disp_y0[1] # trace_call.disp_y0[3]

\* C16: when the two DISPX offsets are distinct, the returned trace_x is
\* strictly increasing, whichever offset is larger.
C16_TraceIncreasing ==
    (trace_call.pc = "done" /\ trace_call.DISPX[1] # trace_call.DISPX[2])
        => \A j \in 1..(Len(trace_call.trace_x) - 1) :
              trace_call.trace_x[j] < trace_call.trace_x[j + 1]

\* a returned trace of two or more points for a model whose offset at
\* t = 0 is the larger one, with an entry trimmed away
C16_Witness ==
    /\ trace_call.pc = "done"
    /\ trace_call.DISPX[1] > trace_call.DISPX[2]
    /\ Len(trace_call.trace_x) >= 2
    /\ Len(trace_call.trace_x) < Len(trace_call.disp_x0)

\* C17: fit_spectral_trace does not return normally when the two DISPX
\* offsets are equal.
C17_DegenerateFails ==
    trace_call.pc = "done" => trace_call.DISPX[1] # trace_call.DISPX[2]

\* the aperture of extract_spectrum lies inside the image
ApertureInside ==
    /\ 0 <= extract_call.y_min
    /\ 0 <= extract_call.y_max /\ extract_call.y_max <= extract_call.data.shape[1]
    /\ 0 <= extract_call.x_min /\ extract_call.x_max <= extract_call.data.shape[2]

\* counts and counts_err have int(max(trace_x)) + 1 - int(min(trace_x))
\* entries; entry j sums rows int(y_min) <= r < int(y_max), which are rows
\* of the image, of column int(min(trace_x)) + j
SpanSums ==
    LET width == IntOf(SeqMax(extract_call.trace_x)) + 1 - IntOf(SeqMin(extract_call.trace_x))
        height == Max2(extract_call.y_max - extract_call.y_min, 0)
        pixel(img, k, j, pw) ==
            Power(img.data[<<extract_call.y_min + k - 1, extract_call.x_min + j - 1>>], pw)
    IN /\ Len(extract_call.counts) = width
       /\ Len(extract_call.counts_err) = width
       /\ \A k \in 1..height, j \in 1..width :
             <<extract_call.y_min + k - 1, extract_call.x_min + j - 1>>
                 \in DOMAIN extract_call.data.data
       /\ \A j \in 1..width :
             /\ extract_call.counts[j] =
                   SumTo([k \in 1..height |-> pixel(extract_call.data, k, j, 1)], height)
             /\ extract_call.counts_err[j] =
                   Sqrt(SumTo([k \in 1..height |-> pixel(extract_call.err, k, j, 2)], height))

\* C18 as stated: for every non-empty trace_x and every y_min, y_max the
\* outputs have int(max(trace_x)) + 1 - int(min(trace_x)) entries that sum
\* rows int(y_min) <= r < int(y_max) of column int(min(trace_x)) + j.
C18_SpanSums ==
    extract_call.pc = "done" => SpanSums

\* C18, amended: the same, whenever the aperture lies inside the image.
C18_SpanSumsInside ==
    (extract_call.pc = "done" /\ ApertureInside) => SpanSums

\* a returned spectrum of two columns summed over two rows, for an
\* aperture inside the image and a trace that starts between two pixels
C18_Witness ==
    /\ extract_call.pc = "done" /\ ApertureInside
    /\ extract_call.y_max - extract_call.y_min = 2
    /\ Len(extract_call.counts) = 2
    /\ extract_call.y_min0 % 2 = 1
    /\ SeqMin(extract_call.trace_x) % 2 = 1

\* bin b is strictly inside (wl_min, wl_max)
StrictlyInside(b) ==
    /\ light_call.wl_min < light_call.wavelength[b]
    /\ light_call.wavelength[b] < light_call.wl_max

\* C19: lc_counts and lc_counts_err have one entry per exposure, and
\* lc_counts[e] is the sum of row e over the bins with wl_min < w < wl_max,
\* which is 0 when the bounds exclude every bin.
C19_LightCurveSums ==
    light_call.pc = "done"
        => LET n_exp == Len(light_call.time_series_counts)
               n_bins == Len(light_call.wavelength)
           IN /\ Len(light_call.lc_counts) = n_exp
              /\ Len(light_call.lc_counts_err) = n_exp
              /\ \A e \in 1..n_exp :
                    /\ light_call.lc_counts[e] =
                          SumTo([b \in 1..n_bins |->
                                   IF StrictlyInside(b)
                                   THEN light_call.time_series_counts[e][b] ELSE 0],
                                n_bins)
                    /\ (\A b \in 1..n_bins : ~StrictlyInside(b))
                          => light_call.lc_counts[e] = 0

\* a returned light curve of two exposures with different sums, where a
\* bin at exactly wl_min that holds counts was left out
C19_Witness ==
    /\ light_call.pc = "done"
    /\ light_call.wavelength = <<2000, 5000>>
    /\ Len(light_call.lc_counts) = 2
    /\ light_call.lc_counts[1] # light_call.lc_counts[2]
    /\ light_call.time_series_counts[1][1] = 2
    /\ light_call.lc_counts[1] = light_call.time_series_counts[1][2]

\* C20: for every exposure whose lc_counts is 0 or negative, lc_counts_err
\* is a finite number.
C20_ErrFinite ==
    light_call.pc = "done"
        => \A e \in 1..Len(light_call.lc_counts) :
              light_call.lc_counts[e] <= 0
                 => light_call.lc_counts_err[e].kind = "quotient"

\* C21: a call of stack_cutouts whose stack_type is neither 'mean' nor
\* 'median' goes from its start straight to the raise of ValueError: it
\* returns nothing, draws no figure and leaves every file as it was,
\* whatever scale_flux and export_file are.
C21_InvalidStackType ==
    (stack_call.pc # "off" /\ stack_call.stack_type \notin {"mean", "median"}) =>
        /\ stack_call.pc \in {"start", "raised"}
        /\ stack_call.stacked_image = <<>>
        /\ stack_call.figure = <<>>
        /\ stack_call.returned = <<>>
        /\ \A f \in DOMAIN disk : disk[f] = <<"old">>

\* the raise has happened for a call that asked for scaling and an export
\* onto an existing file
C21_Witness ==
    /\ stack_call.pc = "raised"
    /\ stack_call.stack_type = "Median"
    /\ stack_call.scale_flux
    /\ stack_call.export_file = "psf.fits"
    /\ "psf.fits" \in DOMAIN disk

\* C22: a call of copy_files_check with rename=True on an existing source
\* directory returns normally, and then every listed regular file that was
\* not in the destination under its new name (src_str replaced by dst_str)
\* is there with the content of the source file.
C22_RenameCopies ==
    (/\ copy_call.pc \in {"done", "raised"}
     /\ copy_call.rename
     /\ IsDir(copy_call.disk0, copy_call.src_dir_full)) =>
        /\ copy_call.pc = "done"
        /\ \A k \in 1..Len(copy_call.files) :
              LET f == copy_call.files[k]
                  target == Join(copy_call.dst_dir_full,
                                 Replaced(f, copy_call.src_str, copy_call.dst_str))
              IN (/\ IsFile(copy_call.disk0, copy_call.src_dir_full, f)
                  /\ target \notin DOMAIN copy_call.disk0) =>
                     /\ target \in DOMAIN disk
                     /\ disk[target] = copy_call.disk0[Join(copy_call.src_dir_full, f)]

\* an entry that the step leaves as it is
Kept(p) == p \in DOMAIN disk' /\ disk'[p] = disk[p]

\* the source file of the current loop pass, moved to a path that was free
MovedAway(p) ==
    /\ InLoop
    /\ copy_call.move /\ ~copy_call.print_cmd
    /\ p = SrcFull
    /\ DstFull \notin DOMAIN disk
    /\ disk'[DstFull] = disk[p]

\* C23: no step of copy_files_check changes an entry that exists: in
\* every call of a sequence of calls each existing file keeps its content,
\* except a source file that a move takes to a path where nothing was;
\* with print_cmd=True every file stays where and as it was.
C23_NeverOverwrites ==
    [][/\ \A p \in DOMAIN disk : Kept(p) \/ MovedAway(p)
       /\ (copy_call.pc = "loop" /\ copy_call.print_cmd) => disk' = disk]_vars

\* a move with rename=False has returned: a_raw.fits was listed and is
\* still in the source, the older a_raw.fits of the destination is as it
\* was, and another file was moved
C23_Witness ==
    /\ copy_call.pc = "done"
    /\ ~copy_call.rename /\ copy_call.move /\ ~copy_call.print_cmd
    /\ copy_call.dst_dir = "dst"
    /\ \E k \in 1..Len(copy_call.files) : copy_call.files[k] = FileA
    /\ Join(copy_call.src_dir_full, FileA) \in DOMAIN disk
    /\ Join(copy_call.dst_dir_full, FileA) \in DOMAIN disk
    /\ disk[Join(copy_call.dst_dir_full, FileA)] = FileEntry(<<"old">>)
    /\ copy_call.n = 1

\* C30: when a call of copy_files_check has ended, by a return or by an
\* exception, the working directory is the one the call started in.
C30_CwdRestored ==
    copy_call.pc \in {"done", "raised"} => cwd = copy_call.cwd0

\* the text of one section of dependabot.yml, in its own words
SectionText(ecosystem, directory) ==
    <<"  - package-ecosystem: \"", ecosystem, "\"", LF,
      "    directory: \"">> \o directory \o <<"\"", LF,
      "    schedule:", LF,
      "     interval: \"weekly\"", LF,
      "     day: \"sunday\"", LF,
      "     time: \"12:00\"", LF>>

RECURSIVE PipText(_, _)
\* the pip sections of the paths of S from AllPaths[k] on, in that order
PipText(S, k) ==
    IF k > Len(AllPaths) THEN <<>>
    ELSE (IF AllPaths[k] \in S
          THEN SectionText("pip", SubSeq(AllPaths[k], 1, Len(AllPaths[k]) - 1))
          ELSE <<>>) \o PipText(S, k + 1)

ExpectedText(S) ==
    <<"version: 2", LF, "updates:", LF>> \o SectionText("github-actions", <<"/">>)
    \o PipText(S, 1)

LastRun == make_call.runs
ContentAsExpected ==
    LastRun >= 1 =>
        /\ output_file_name \in DOMAIN disk
        /\ disk[output_file_name] = ExpectedText(make_call.seen[LastRun])

TwiceInARow == LastRun >= 2 /\ make_call.seen[LastRun] = make_call.seen[LastRun - 1]
WroteTwice == make_call.wrote[LastRun - 1] /\ make_call.wrote[LastRun]
NoLineBreaks(S) == \A p \in S : \A k \in 1..Len(p) : p[k] \notin {LF, CR}

C25_IterationSemantics ==
    [][(pc = "loop" /\ fn = "time" /\ i' = i + 1) =>
          LET a == heap[cr]
              n == a.shape[1]
          IN \A p \in Positions(a.shape) :
                LET m == MedianAt(a, p[2], p[3])
                    dev == Abs(a.data[p] - m)
                    flagged == n_sigma[2] * n_sigma[2] * n * dev * dev
                                 > n_sigma[1] * n_sigma[1] * SumSqDevAt(a, p[2], p[3])
                IN /\ lastflag'[p] = flagged
                   /\ heap'[cr'].data[p] = IF flagged THEN m ELSE a.data[p]]_vars

\* the second iteration has flagged a pixel that the statistics of the
\* input do not flag
C25_Witness ==
    /\ fn = "time" /\ pc = "loop" /\ i = 2
    /\ \E p \in Positions(input0.shape) :
          lastflag[p] /\ ~TimeOutliers(input0, n_sigma)[p]

\* round(x) of a float x stored times two: the nearest integer, the even
\* one of the two when x lies halfway
RoundOf(x2) ==
    IF x2 % 2 = 0 THEN x2 \div 2
    ELSE LET below == (x2 - 1) \div 2
         IN IF below % 2 = 0 THEN below ELSE below + 1

RoundedWindow(hdr) ==
    [y_min |-> RoundOf(-hdr["LTV2"]),
     y_max |-> RoundOf(-hdr["LTV2"]) + hdr["NAXIS2"],
     x_min |-> RoundOf(-hdr["LTV1"]),
     x_max |-> RoundOf(-hdr["LTV1"]) + hdr["NAXIS1"]]

\* C26: a completed call of embedsub_uvis has put the subarray at rows
\* [y_min, y_max) and columns [x_min, x_max) with y_min = round(-LTV2) and
\* x_min = round(-LTV1), also when LTV1 or LTV2 is not an integer.
C26_RoundedOrigin ==
    (epc = "done" /\ path_f # path /\ WindowFits(RoundedWindow(src0.SCI.hdr))) =>
        \A ext \in {"SCI", "ERR", "DQ"} :
            CropEquals(fs[path_f][ext].data, RoundedWindow(src0.SCI.hdr), src0[ext].data)

\* n_sigma squared is at least k
SigmaSquaredAtLeast(k) == n_sigma[1] * n_sigma[1] >= k * n_sigma[2] * n_sigma[2]

NothingFlagged == AllFalse(mask) /\ heap[cr].data = input0.data

C28_Stabilises ==
    [][(/\ fn = "time" /\ pc = "loop" /\ i >= 1 /\ i' = i + 1
        /\ \A p \in DOMAIN lastflag : ~lastflag[p]) =>
          /\ \A p \in DOMAIN lastflag' : ~lastflag'[p]
          /\ heap'[cr'].data = heap[cr].data
          /\ mask' = mask]_vars

\* a stack of at least two exposures with a deviating pixel went through a
\* first iteration that flagged nothing and then through a second
C28_Witness ==
    /\ fn = "time" /\ pc = "loop" /\ i = 2
    /\ input0.shape[1] >= 2
    /\ \E p \in DOMAIN input0.data : input0.data[p] # 0
    /\ AllFalse(mask)
    /\ heap[cr].data = input0.data

PipeDone == trace_call.pc = "done" /\ extract_call.pc = "done"

LengthsAgree ==
    /\ Len(extract_call.counts) = Len(trace_call.trace_x)
    /\ Len(trace_call.trace_x) = Len(trace_call.wavelength)

\* the kept positions are one pixel apart (positions are stored times two)
Consecutive(tx) == \A k \in 1..(Len(tx) - 1) : tx[k + 1] = tx[k] + 2

\* C29 as stated: when extract_spectrum is given the trace_x of
\* fit_spectral_trace, len(counts) = len(trace_x) = len(wavelength), for
\* every source position and every window that keeps at least one pixel.
C29_LengthsAgree == PipeDone => LengthsAgree

\* What the code does give: for a trace without gaps that lies inside
\* the image (consecutive grid positions kept, min(trace_x) >= 0 and
\* int(max(trace_x)) + 1 at most the image width) the lengths agree.
LengthsAgreeInside ==
    (/\ PipeDone
     /\ Consecutive(trace_call.trace_x)
     /\ SeqMin(trace_call.trace_x) >= 0
     /\ IntOf(SeqMax(trace_call.trace_x)) + 1 <= extract_call.data.shape[2]) =>
        LengthsAgree

\* three consecutive positions that start between two pixels were
\* extracted from the wide image
InsideReached ==
    /\ PipeDone
    /\ Len(trace_call.trace_x) = 3
    /\ Consecutive(trace_call.trace_x)
    /\ trace_call.trace_x[1] % 2 = 1 /\ trace_call.trace_x[1] > 0
    /\ extract_call.data.shape[2] = FrameCols
    /\ Len(extract_call.counts) = 3

====
